---------------------------- MODULE Spec2Model ----------------------------
(***************************************************************************)
(* The analysis pipeline of refactorlens-be: parse, map, diff, classify,   *)
(* score and scan, as AnalysisService.analyzeCodePair runs them.           *)
(*                                                                         *)
(* Text is a tuple of one-character strings, so that substring search,     *)
(* edit distance and the scanners' regular expressions are computed on the *)
(* characters, as the JavaScript does.  Numbers the JavaScript holds in    *)
(* floating point are held here as exact fractions or in fixed point.      *)
(***************************************************************************)
EXTENDS Integers, Sequences, FiniteSets, TLC

VARIABLES
  pc,            \* the position of analyzeCodePair in its steps
  request,       \* the request of the analysis under way
  legacyAST,     \* step 1: parseCode(request.legacy)
  refactoredAST, \* step 1: parseCode(request.refactored)
  mappings,      \* step 2: the Map of mapElements, legacy node -> refactored node
  astChanges,    \* step 3: the local astChanges of computeDiffs
  astDiffs,      \* step 3: the value computeDiffs returns
  refactorTypes, \* step 4: the tags classify returns
  impactMetrics, \* step 5: the value calculate returns
  riskFlags,     \* step 6: the flags scan returns
  scoreArg,      \* the argument of a direct call of determineLevel
  levelOut,      \* the value that call returned
  analysis,      \* the Analysis document of the analysis under way
  second,        \* another analysis under way on the same service
  analysisQueue, \* the module variable analysisQueue of the queue module
  initialised,   \* the callback of app.listen has called initQueue
  analyses,      \* the collection of Analysis documents, by id
  immediates,    \* the callbacks handed to setImmediate, by analysis id
  jobs,          \* the jobs waiting in the Bull queue, by analysis id
  handlers,      \* the position of the handler of POST /analyze, by id
  workers,       \* the invocations of analyzeCodePair, by id and executor
  reply          \* the last reply of GET or DELETE /analyze/:id

\* The variables of the routes, the queue and the collection.
serviceVars ==
  <<analysisQueue, initialised, analyses, immediates, jobs, handlers, workers, reply>>

vars ==
  <<pc, request, legacyAST, refactoredAST, mappings, astChanges, astDiffs,
    refactorTypes, impactMetrics, riskFlags, scoreArg, levelOut, analysis, second,
    serviceVars>>

-----------------------------------------------------------------------------
(* Bounds of the model. *)

\* The lines of the legacy and the refactored source of one request, together.
MaxTotalLines == 3

-----------------------------------------------------------------------------
(* Strings. *)

Range(s) == {s[i] : i \in DOMAIN s}

Max(S) == CHOOSE x \in S : \A y \in S : y <= x

Min(S) == CHOOSE x \in S : \A y \in S : x <= y

UpperCase ==
  ("A" :> "a") @@ ("B" :> "b") @@ ("C" :> "c") @@ ("D" :> "d") @@ ("E" :> "e") @@
  ("F" :> "f") @@ ("G" :> "g") @@ ("H" :> "h") @@ ("I" :> "i") @@ ("J" :> "j") @@
  ("K" :> "k") @@ ("L" :> "l") @@ ("M" :> "m") @@ ("N" :> "n") @@ ("O" :> "o") @@
  ("P" :> "p") @@ ("Q" :> "q") @@ ("R" :> "r") @@ ("S" :> "s") @@ ("T" :> "t") @@
  ("U" :> "u") @@ ("V" :> "v") @@ ("W" :> "w") @@ ("X" :> "x") @@ ("Y" :> "y") @@
  ("Z" :> "z")

\* String.prototype.toLowerCase, one character.
LowerChar(c) == IF c \in DOMAIN UpperCase THEN UpperCase[c] ELSE c

\* String.prototype.toLowerCase.
toLowerCase(s) == [i \in DOMAIN s |-> LowerChar(s[i])]

\* String.prototype.includes: sub occurs in s as a run of characters.
includes(s, sub) ==
  \E i \in 0..(Len(s) - Len(sub)) : \A j \in 1..Len(sub) : s[i + j] = sub[j]

\* Array.prototype.join of the parts with the separator between them.
RECURSIVE join(_, _)
join(parts, sep) ==
  IF parts = <<>> THEN <<>>
  ELSE IF Len(parts) = 1 THEN parts[1]
  ELSE parts[1] \o sep \o join(Tail(parts), sep)

Digit == <<"0", "1", "2", "3", "4", "5", "6", "7", "8", "9">>

\* A non-negative integer in decimal, as a template literal prints it.
RECURSIVE NumberText(_)
NumberText(n) ==
  IF n < 10 THEN <<Digit[n + 1]>> ELSE NumberText(n \div 10) \o <<Digit[(n % 10) + 1]>>

-----------------------------------------------------------------------------
(* The sources of the model: JavaScript statements, one to a line, and what *)
(* the tree-sitter parser and extractJavaScriptMetadata make of each: the   *)
(* node type, and the name and parameters of a function_declaration, the    *)
(* text of an import_statement as its import.                               *)

NoName == <<>>   \* metadata.name = null

Statements == <<
  [ text       |-> <<"f","u","n","c","t","i","o","n"," ","c","o","m","p","u","t","e","T","o","t","a","l","(","i","t","e","m","s",")","{","r","e","t","u","r","n"," ","s","u","m","(","i","t","e","m","s",")",";","}">>,
    type       |-> "function_declaration",
    name       |-> <<"c","o","m","p","u","t","e","T","o","t","a","l">>,
    parameters |-> << <<"i","t","e","m","s">> >>,
    imports    |-> <<>> ],
  [ text       |-> <<"f","u","n","c","t","i","o","n"," ","c","a","l","c","u","l","a","t","e","T","o","t","a","l","(","i","t","e","m","s",")","{","r","e","t","u","r","n"," ","s","u","m","(","i","t","e","m","s",")",";","}">>,
    type       |-> "function_declaration",
    name       |-> <<"c","a","l","c","u","l","a","t","e","T","o","t","a","l">>,
    parameters |-> << <<"i","t","e","m","s">> >>,
    imports    |-> <<>> ],
  [ text       |-> <<"i","m","p","o","r","t"," ","e","x","p","r","e","s","s"," ","f","r","o","m"," ","'","e","x","p","r","e","s","s","'",";">>,
    type       |-> "import_statement",
    name       |-> NoName,
    parameters |-> <<>>,
    imports    |-> << <<"i","m","p","o","r","t"," ","e","x","p","r","e","s","s"," ","f","r","o","m"," ","'","e","x","p","r","e","s","s","'",";">> >> ],
  [ text       |-> <<"d","a","t","a","b","a","s","e","_","p","a","s","s","w","o","r","d"," ","="," ","\"","h","u","n","t","e","r","2","\"",";">>,
    type       |-> "expression_statement",
    name       |-> NoName,
    parameters |-> <<>>,
    imports    |-> <<>> ]
>>

\* The node types above, as text.
TypeText ==
  ("program" :> <<"p","r","o","g","r","a","m">>) @@
  ("function_declaration" :> <<"f","u","n","c","t","i","o","n","_","d","e","c","l","a","r","a","t","i","o","n">>) @@
  ("function" :> <<"f","u","n","c","t","i","o","n">>) @@
  ("import_statement" :> <<"i","m","p","o","r","t","_","s","t","a","t","e","m","e","n","t">>) @@
  ("expression_statement" :> <<"e","x","p","r","e","s","s","i","o","n","_","s","t","a","t","e","m","e","n","t">>)

\* A source is its lines, each an index into Statements.
RECURSIVE SourcesOfLength(_)
SourcesOfLength(n) ==
  IF n = 0 THEN {<<>>}
  ELSE {Append(s, l) : s \in SourcesOfLength(n - 1), l \in DOMAIN Statements}

Sources == UNION {SourcesOfLength(n) : n \in 0..MaxTotalLines}

\* The text of a source: every line ends with a newline.
RECURSIVE SourceText(_)
SourceText(src) ==
  IF src = <<>> THEN <<>>
  ELSE Statements[Head(src)].text \o <<"\n">> \o SourceText(Tail(src))

\* The languages initializeParsers registers a parser for.
parsers == {"javascript", "java", "python", "c", "cpp"}

\* normalizeAST over the tree of a source, in depth-first order: the program
\* node first, then its children, one statement node a line.  A node is named
\* by its place in this tuple.  The nodes below a statement (its identifier,
\* its parameter list, its body) are left out: none of them has a
\* metadata.name, so none is mapped; they would add to the counts of added
\* and removed nodes only.
normalizeAST(src, language) ==
  << [ type |-> "program", text |-> SourceText(src), language |-> language,
       metadata |-> [name |-> NoName, parameters |-> <<>>, imports |-> <<>>] ] >>
  \o [ i \in 1..Len(src) |->
       [ type |-> Statements[src[i]].type,
         text |-> Statements[src[i]].text,
         language |-> language,
         metadata |-> [ name       |-> Statements[src[i]].name,
                        parameters |-> Statements[src[i]].parameters,
                        imports    |-> Statements[src[i]].imports ] ] ]

\* An error thrown, held where the value returned would be.
thrown(message) == << [error |-> message] >>

isThrown(value) == "error" \in DOMAIN value[1]

\* parseCode that normalizes whatever the language.
parseCodeAnyLanguage(src, language) == normalizeAST(src, language)

\* parseCode: it throws for a language without a parser, before it parses.
parseCode(src, language) ==
  IF language \notin parsers
    THEN thrown(<<"Unsupported language: ", language>>)
    ELSE normalizeAST(src, language)

\* collectAllNodes: every node, depth first.
collectAllNodes(ast) == [i \in 1..Len(ast) |-> i]

-----------------------------------------------------------------------------
(* Element mapper. *)

NoNode == 0   \* null

\* findNodeByName: the first node, depth first, whose metadata.name === name.
findNodeByName(ast, name) ==
  LET found == {i \in 1..Len(ast) : ast[i].metadata.name = name}
  IN  IF found = {} THEN NoNode ELSE Min(found)

\* collectNamedNodes: the nodes with a metadata.name, depth first.
collectNamedNodes(ast) ==
  SelectSeq(collectAllNodes(ast), LAMBDA i : ast[i].metadata.name # NoName)

\* matrix[i][lo..hi], the columns lo..hi of row i of the matrix of
\* levenshteinDistance, filled left to right: prev is matrix[i-1], c is
\* str2.charAt(i-1) and left is matrix[i][lo-1].  The columns are filled in two
\* halves, the left half first.
RECURSIVE LevRow(_, _, _, _, _, _)
LevRow(prev, c, str1, left, lo, hi) ==
  IF lo > hi THEN <<>>
  ELSE IF lo = hi
    THEN << IF c = str1[lo] THEN prev[lo]
            ELSE Min({prev[lo] + 1, left + 1, prev[lo + 1] + 1}) >>
  ELSE LET cells == LevRow(prev, c, str1, left, lo, (lo + hi) \div 2)
       IN  cells \o LevRow(prev, c, str1, cells[Len(cells)], (lo + hi) \div 2 + 1, hi)

\* matrix[lo..hi], the rows filled top down, in two halves as well: prev is
\* matrix[lo-1], and matrix[i][0] = i.
RECURSIVE LevRows(_, _, _, _, _)
LevRows(prev, str1, str2, lo, hi) ==
  IF lo > hi THEN <<>>
  ELSE IF lo = hi
    THEN << <<lo>> \o LevRow(prev, str2[lo], str1, lo, 1, Len(str1)) >>
  ELSE LET rows == LevRows(prev, str1, str2, lo, (lo + hi) \div 2)
       IN  rows \o LevRows(rows[Len(rows)], str1, str2, (lo + hi) \div 2 + 1, hi)

\* levenshteinDistance(str1, str2): matrix[str2.length][str1.length], where
\* matrix[0][j] = j.
levenshteinDistance(str1, str2) ==
  LET first == [j \in 1..(Len(str1) + 1) |-> j - 1]
      matrix == <<first>> \o LevRows(first, str1, str2, 1, Len(str2))
  IN  matrix[Len(str2) + 1][Len(str1) + 1]

\* A fraction num/den, den > 0.
Frac(n, d) == [num |-> n, den |-> d]

FracGreater(a, b) == a.num * b.den > b.num * a.den

FracAdd(a, b) == Frac(a.num * b.den + b.num * a.den, a.den * b.den)

FracMul(a, b) == Frac(a.num * b.num, a.den * b.den)

\* calculateArraySimilarity.
calculateArraySimilarity(arr1, arr2) ==
  IF Len(arr1) = 0 /\ Len(arr2) = 0 THEN Frac(1, 1)
  ELSE IF Len(arr1) = 0 \/ Len(arr2) = 0 THEN Frac(0, 1)
  ELSE Frac(Cardinality({i \in DOMAIN arr1 : arr1[i] \in Range(arr2)}),
            Max({Len(arr1), Len(arr2)}))

\* calculateSimilarity, as an exact fraction:
\* nameSimilarity * 0.5 + typeSimilarity * 0.3 + paramSimilarity * 0.2.
calculateSimilarity(node1, node2) ==
  LET name1 == node1.metadata.name
      name2 == node2.metadata.name
      distance == levenshteinDistance(name1, name2)
      maxLength == Max({Len(name1), Len(name2)})
      nameSimilarity == IF maxLength > 0 THEN Frac(maxLength - distance, maxLength)
                        ELSE Frac(0, 1)
      typeSimilarity == IF node1.type = node2.type THEN Frac(1, 1) ELSE Frac(1, 2)
      paramSimilarity ==
        calculateArraySimilarity(node1.metadata.parameters, node2.metadata.parameters)
  IN  IF name1 = name2 THEN Frac(1, 1)
      ELSE FracAdd(FracAdd(FracMul(nameSimilarity, Frac(5, 10)),
                           FracMul(typeSimilarity, Frac(3, 10))),
                   FracMul(paramSimilarity, Frac(2, 10)))

\* findBestMatch: the first candidate of the greatest similarity, if that is
\* above 0; [node |-> NoNode] for null.
findBestMatch(targetNode, candidates, refactored) ==
  LET sim(k) == calculateSimilarity(targetNode, refactored[candidates[k]])
      best == {k \in DOMAIN candidates :
                 /\ FracGreater(sim(k), Frac(0, 1))
                 /\ \A m \in DOMAIN candidates :
                      /\ ~FracGreater(sim(m), sim(k))
                      /\ (m < k => FracGreater(sim(k), sim(m)))}
  IN  IF best = {} THEN [node |-> NoNode, similarity |-> Frac(0, 1)]
      ELSE [node |-> candidates[Min(best)], similarity |-> sim(Min(best))]

\* A threshold that 0.7 itself passes.
acceptsMatchAtThreshold(bestMatch) ==
  bestMatch.node # NoNode /\ ~FracGreater(Frac(7, 10), bestMatch.similarity)

\* The threshold of mapElements: bestMatch.similarity > 0.7.
acceptsMatch(bestMatch) ==
  bestMatch.node # NoNode /\ FracGreater(bestMatch.similarity, Frac(7, 10))

\* No pair from the hints: automatic matching alone.
hintMappingsIgnored(legacy, refactored, mapHints) == <<>>

\* The pairs mapElements sets from the hints: mapHints is a function from
\* legacy names to refactored names.
hintMappings(legacy, refactored, mapHints) ==
  LET hinted == {n \in DOMAIN mapHints :
                   /\ findNodeByName(legacy, n) # NoNode
                   /\ findNodeByName(refactored, mapHints[n]) # NoNode}
      keys == {findNodeByName(legacy, n) : n \in hinted}
  IN  [l \in keys |->
         LET n == CHOOSE n \in hinted : findNodeByName(legacy, n) = l
         IN  findNodeByName(refactored, mapHints[n])]

\* mapElements: the hints first, then every named legacy node the hints left
\* unmapped, paired with its best match when that is accepted.
mapElements(legacy, refactored, mapHints) ==
  LET hints == hintMappings(legacy, refactored, mapHints)
      refactoredNodes == collectNamedNodes(refactored)
      bestOf(l) == findBestMatch(legacy[l], refactoredNodes, refactored)
      matched == {l \in Range(collectNamedNodes(legacy)) :
                    l \notin DOMAIN hints /\ acceptsMatch(bestOf(l))}
  IN  [l \in DOMAIN hints \cup matched |->
         IF l \in DOMAIN hints THEN hints[l] ELSE bestOf(l).node]

-----------------------------------------------------------------------------
(* Diff engine. *)

\* The longest common subsequence of two tuples of lines, its length.
RECURSIVE LCSLength(_, _)
LCSLength(a, b) ==
  IF a = <<>> \/ b = <<>> THEN 0
  ELSE IF Head(a) = Head(b) THEN 1 + LCSLength(Tail(a), Tail(b))
  ELSE Max({LCSLength(Tail(a), b), LCSLength(a, Tail(b))})

\* diff.diffLines(a, b), a change a line: a shortest edit script, [op, line]
\* with op "-" for removed, "+" for added and " " for a line of both.  Among
\* the shortest scripts this takes removals first; the counts of added and
\* removed lines are those of every shortest script.
RECURSIVE diffLines(_, _)
diffLines(a, b) ==
  IF a = <<>> THEN [i \in DOMAIN b |-> [op |-> "+", line |-> b[i]]]
  ELSE IF b = <<>> THEN [i \in DOMAIN a |-> [op |-> "-", line |-> a[i]]]
  ELSE IF Head(a) = Head(b)
    THEN <<[op |-> " ", line |-> Head(a)]>> \o diffLines(Tail(a), Tail(b))
  ELSE IF LCSLength(Tail(a), b) >= LCSLength(a, Tail(b))
    THEN <<[op |-> "-", line |-> Head(a)]>> \o diffLines(Tail(a), b)
  ELSE <<[op |-> "+", line |-> Head(b)]>> \o diffLines(a, Tail(b))

\* The sum of change.count over the changes of one kind.
countChanges(textDiffs, op) == Cardinality({i \in DOMAIN textDiffs : textDiffs[i].op = op})

\* diff.createPatch('main', a, b): the lines of the unified diff.  The header
\* is always there; the hunk holds every changed line and the unchanged lines
\* at most four script lines from a changed one (a text of the model is short
\* enough for one hunk).
createPatch(a, b) ==
  LET script == diffLines(a, b)
      changed == {i \in DOMAIN script : script[i].op # " "}
      inHunk(i) == \E j \in changed : i - j \in (0 - 4)..4
      body == SelectSeq([i \in DOMAIN script |-> i], inHunk)
      olds == Cardinality({i \in Range(body) : script[i].op # "+"})
      news == Cardinality({i \in Range(body) : script[i].op # "-"})
      hunkHeader ==
        <<"@","@"," ","-">> \o NumberText(IF olds = 0 THEN 0 ELSE 1) \o <<",">> \o NumberText(olds)
        \o <<" ","+">> \o NumberText(IF news = 0 THEN 0 ELSE 1) \o <<",">> \o NumberText(news)
        \o <<" ","@","@">>
  IN  << <<"I","n","d","e","x",":"," ","m","a","i","n">>,
         <<"=","=","=","=","=","=","=","=","=","=","=","=","=","=","=","=","=","=","=","=","=","=","=","=","=","=","=","=","=","=","=","=","=","=","=","=","=","=","=","=","=","=","=","=","=","=","=","=","=","=","=","=","=","=","=","=","=","=","=","=","=","=","=","=","=","=","=">>,
         <<"-","-","-"," ","m","a","i","n">>,
         <<"+","+","+"," ","m","a","i","n">> >>
      \o (IF changed = {} THEN <<>>
          ELSE <<hunkHeader>>
               \o [k \in DOMAIN body |->
                     <<script[body[k]].op>> \o script[body[k]].line])

\* areNodesEquivalent: JSON.stringify(metadata) differs exactly when a field
\* of the metadata does.
areNodesEquivalent(node1, node2) ==
  /\ node1.type = node2.type
  /\ node1.text = node2.text
  /\ node1.metadata = node2.metadata

\* getNodeChanges.
getNodeChanges(node1, node2) ==
     (IF node1.type # node2.type
        THEN << <<"T","y","p","e"," ","c","h","a","n","g","e","d",":"," ">> \o TypeText[node1.type] \o <<" ","-",">"," ">> \o TypeText[node2.type] >>
        ELSE <<>>)
  \o (IF node1.text # node2.text THEN << <<"C","o","n","t","e","n","t"," ","m","o","d","i","f","i","e","d">> >> ELSE <<>>)
  \o (IF node1.metadata # node2.metadata THEN << <<"M","e","t","a","d","a","t","a"," ","c","h","a","n","g","e","d">> >> ELSE <<>>)

\* Every refactored node that is no value of the Map, equivalent or not.
findAddedNodesUnmapped(legacy, refactored, map) ==
  SelectSeq(collectAllNodes(refactored),
    LAMBDA r : ~(\E l \in DOMAIN map : map[l] = r))

\* findAddedNodes: the refactored nodes that are no value of the Map and have
\* no equivalent legacy node.
findAddedNodes(legacy, refactored, map) ==
  SelectSeq(collectAllNodes(refactored),
    LAMBDA r :
      /\ ~(\E l \in DOMAIN map : map[l] = r)
      /\ ~(\E l \in DOMAIN legacy : areNodesEquivalent(legacy[l], refactored[r])))

\* findRemovedNodes: the legacy nodes that are no key of the Map and have no
\* equivalent refactored node.
findRemovedNodes(legacy, refactored, map) ==
  SelectSeq(collectAllNodes(legacy),
    LAMBDA l :
      /\ l \notin DOMAIN map
      /\ ~(\E r \in DOMAIN refactored : areNodesEquivalent(legacy[l], refactored[r])))

\* Every pair of the Map, equivalent or not.
findModifiedNodesAll(legacy, refactored, map) ==
  LET keys == SelectSeq(collectAllNodes(legacy), LAMBDA l : l \in DOMAIN map)
  IN  [k \in DOMAIN keys |->
         [ legacy     |-> keys[k],
           refactored |-> map[keys[k]],
           changes    |-> getNodeChanges(legacy[keys[k]], refactored[map[keys[k]]]) ]]

\* findModifiedNodes: the pairs of the Map whose nodes are not equivalent.
\* The Map is walked in the order of its keys' insertion; here the pairs come
\* in the order of the legacy nodes.
findModifiedNodes(legacy, refactored, map) ==
  LET keys == SelectSeq(collectAllNodes(legacy),
                LAMBDA l : /\ l \in DOMAIN map
                           /\ ~areNodesEquivalent(legacy[l], refactored[map[l]]))
  IN  [k \in DOMAIN keys |->
         [ legacy     |-> keys[k],
           refactored |-> map[keys[k]],
           changes    |-> getNodeChanges(legacy[keys[k]], refactored[map[keys[k]]]) ]]

\* computeASTChanges.
computeASTChanges(legacy, refactored, map) ==
  [ added    |-> findAddedNodes(legacy, refactored, map),
    removed  |-> findRemovedNodes(legacy, refactored, map),
    modified |-> findModifiedNodes(legacy, refactored, map) ]

\* generateASTSummary.
generateASTSummary(changes) ==
  join(   (IF Len(changes.added) > 0
             THEN << NumberText(Len(changes.added)) \o <<" ","n","o","d","e","s"," ","a","d","d","e","d">> >> ELSE <<>>)
       \o (IF Len(changes.removed) > 0
             THEN << NumberText(Len(changes.removed)) \o <<" ","n","o","d","e","s"," ","r","e","m","o","v","e","d">> >> ELSE <<>>)
       \o (IF Len(changes.modified) > 0
             THEN << NumberText(Len(changes.modified)) \o <<" ","n","o","d","e","s"," ","m","o","d","i","f","i","e","d">> >> ELSE <<>>),
       <<","," ">>)

\* calculateImpactScore.
calculateImpactScore(changes) ==
  Min({Len(changes.added) * 2 + Len(changes.removed) * 3 + Len(changes.modified) * 1, 100})

\* computeDiffs, given the lines of the two sources (astToText of the two
\* program nodes) and the changes computeASTChanges found.
computeDiffs(legacyLines, refactoredLines, changes) ==
  LET textDiffs == diffLines(legacyLines, refactoredLines)
      overall == [ nodesAdded    |-> Len(changes.added),
                   nodesRemoved  |-> Len(changes.removed),
                   nodesModified |-> Len(changes.modified),
                   linesAdded    |-> countChanges(textDiffs, "+"),
                   linesRemoved  |-> countChanges(textDiffs, "-") ]
  IN  [ files |->
          << [ filePath |-> "main",
               changes  |->
                 [ textDiff       |-> createPatch(legacyLines, refactoredLines),
                   astDiffSummary |-> generateASTSummary(changes),
                   impactScore    |-> calculateImpactScore(changes),
                   linesAdded     |-> overall.linesAdded,
                   linesRemoved   |-> overall.linesRemoved,
                   linesModified  |-> overall.nodesModified ] ] >>,
        overall |-> overall ]

-----------------------------------------------------------------------------
(* Pattern classifier. *)

\* initializePatterns: the signature library, in the order of its entries.  A
\* rule names a node type or a text, and a condition.
patterns == <<
  [ key |-> "extractMethod", type |-> "Extract Method", level |-> 2,
    patterns |-> <<
         [type |-> "function_declaration", condition |-> "isNew"],
         [type |-> "method_declaration", condition |-> "isNew"],
         [type |-> "function_definition", condition |-> "isNew"] >> ],
  [ key |-> "inlineMethod", type |-> "Inline Method", level |-> 2,
    patterns |-> <<
         [type |-> "function_declaration", condition |-> "removed"],
         [type |-> "method_declaration", condition |-> "removed"],
         [type |-> "function_definition", condition |-> "removed"] >> ],
  [ key |-> "renameSymbol", type |-> "Rename Symbol", level |-> 1,
    patterns |-> <<
         [condition |-> "nameChanged"] >> ],
  [ key |-> "moveModularize", type |-> "Move/Modularize", level |-> 2,
    patterns |-> <<
         [type |-> "import_statement", condition |-> "isNew"],
         [type |-> "import_declaration", condition |-> "isNew"],
         [type |-> "using_directive", condition |-> "isNew"] >> ],
  [ key |-> "serviceExtraction", type |-> "Service Extraction", level |-> 4,
    patterns |-> <<
         [text |-> <<"r","e","s","t","c","o","n","t","r","o","l","l","e","r">>, condition |-> "isNew"],
         [text |-> <<"c","o","n","t","r","o","l","l","e","r">>, condition |-> "isNew"],
         [text |-> <<"s","e","r","v","i","c","e">>, condition |-> "isNew"],
         [text |-> <<"@","r","e","s","t","c","o","n","t","r","o","l","l","e","r">>, condition |-> "isNew"],
         [text |-> <<"@","c","o","n","t","r","o","l","l","e","r">>, condition |-> "isNew"],
         [text |-> <<"@","s","e","r","v","i","c","e">>, condition |-> "isNew"],
         [text |-> <<"e","x","p","r","e","s","s">>, condition |-> "isNew"],
         [text |-> <<"f","a","s","t","i","f","y">>, condition |-> "isNew"],
         [text |-> <<"f","l","a","s","k">>, condition |-> "isNew"],
         [text |-> <<"d","j","a","n","g","o">>, condition |-> "isNew"] >> ],
  [ key |-> "layering", type |-> "Layering", level |-> 3,
    patterns |-> <<
         [text |-> <<"r","e","p","o","s","i","t","o","r","y">>, condition |-> "isNew"],
         [text |-> <<"d","a","o">>, condition |-> "isNew"],
         [text |-> <<"d","a","t","a","l","a","y","e","r">>, condition |-> "isNew"],
         [text |-> <<"r","e","p","o","s","i","t","o","r","y">>, condition |-> "isNew"],
         [text |-> <<"@","r","e","p","o","s","i","t","o","r","y">>, condition |-> "isNew"],
         [text |-> <<"@","d","a","o">>, condition |-> "isNew"] >> ],
  [ key |-> "eventDriven", type |-> "Event-driven", level |-> 4,
    patterns |-> <<
         [text |-> <<"k","a","f","k","a">>, condition |-> "isNew"],
         [text |-> <<"r","a","b","b","i","t","m","q">>, condition |-> "isNew"],
         [text |-> <<"s","q","s">>, condition |-> "isNew"],
         [text |-> <<"e","v","e","n","t","b","u","s">>, condition |-> "isNew"],
         [text |-> <<"p","u","b","s","u","b">>, condition |-> "isNew"],
         [text |-> <<"m","e","s","s","a","g","i","n","g">>, condition |-> "isNew"] >> ],
  [ key |-> "cloudMigration", type |-> "Cloud Migration", level |-> 3,
    patterns |-> <<
         [text |-> <<"a","w","s","-","s","d","k">>, condition |-> "isNew"],
         [text |-> <<"s","3">>, condition |-> "isNew"],
         [text |-> <<"d","y","n","a","m","o","d","b">>, condition |-> "isNew"],
         [text |-> <<"l","a","m","b","d","a">>, condition |-> "isNew"],
         [text |-> <<"e","c","2">>, condition |-> "isNew"],
         [text |-> <<"r","d","s">>, condition |-> "isNew"],
         [text |-> <<"s","n","s">>, condition |-> "isNew"],
         [text |-> <<"s","q","s">>, condition |-> "isNew"],
         [text |-> <<"a","z","u","r","e">>, condition |-> "isNew"],
         [text |-> <<"b","l","o","b">>, condition |-> "isNew"],
         [text |-> <<"c","o","s","m","o","s","d","b">>, condition |-> "isNew"],
         [text |-> <<"f","u","n","c","t","i","o","n","s">>, condition |-> "isNew"],
         [text |-> <<"g","o","o","g","l","e","-","c","l","o","u","d">>, condition |-> "isNew"],
         [text |-> <<"g","c","s">>, condition |-> "isNew"],
         [text |-> <<"f","i","r","e","s","t","o","r","e">>, condition |-> "isNew"],
         [text |-> <<"c","l","o","u","d","-","f","u","n","c","t","i","o","n","s">>, condition |-> "isNew"] >> ],
  [ key |-> "errorHandling", type |-> "Error Handling", level |-> 2,
    patterns |-> <<
         [text |-> <<"t","r","y">>, condition |-> "isNew"],
         [text |-> <<"c","a","t","c","h">>, condition |-> "isNew"],
         [text |-> <<"e","x","c","e","p","t","i","o","n">>, condition |-> "isNew"],
         [text |-> <<"e","r","r","o","r">>, condition |-> "isNew"],
         [text |-> <<"r","e","t","r","y">>, condition |-> "isNew"],
         [text |-> <<"f","a","l","l","b","a","c","k">>, condition |-> "isNew"] >> ],
  [ key |-> "loggingObservability", type |-> "Logging/Observability", level |-> 2,
    patterns |-> <<
         [text |-> <<"l","o","g","4","j">>, condition |-> "isNew"],
         [text |-> <<"s","l","f","4","j">>, condition |-> "isNew"],
         [text |-> <<"w","i","n","s","t","o","n">>, condition |-> "isNew"],
         [text |-> <<"b","u","n","y","a","n">>, condition |-> "isNew"],
         [text |-> <<"l","o","g","g","i","n","g">>, condition |-> "isNew"],
         [text |-> <<"l","o","g","g","e","r">>, condition |-> "isNew"],
         [text |-> <<"m","e","t","r","i","c","s">>, condition |-> "isNew"],
         [text |-> <<"m","o","n","i","t","o","r","i","n","g">>, condition |-> "isNew"],
         [text |-> <<"t","r","a","c","i","n","g">>, condition |-> "isNew"] >> ],
  [ key |-> "testing", type |-> "Testing", level |-> 2,
    patterns |-> <<
         [text |-> <<"j","u","n","i","t">>, condition |-> "isNew"],
         [text |-> <<"t","e","s","t","n","g">>, condition |-> "isNew"],
         [text |-> <<"j","e","s","t">>, condition |-> "isNew"],
         [text |-> <<"m","o","c","h","a">>, condition |-> "isNew"],
         [text |-> <<"p","y","t","e","s","t">>, condition |-> "isNew"],
         [text |-> <<"u","n","i","t","t","e","s","t">>, condition |-> "isNew"],
         [text |-> <<"m","o","c","k","i","t","o">>, condition |-> "isNew"],
         [text |-> <<"s","i","n","o","n">>, condition |-> "isNew"],
         [text |-> <<"@","t","e","s","t">>, condition |-> "isNew"],
         [text |-> <<"d","e","s","c","r","i","b","e">>, condition |-> "isNew"],
         [text |-> <<"i","t","(">>, condition |-> "isNew"],
         [text |-> <<"t","e","s","t","(">>, condition |-> "isNew"] >> ],
  [ key |-> "containerization", type |-> "Containerization", level |-> 4,
    patterns |-> <<
         [text |-> <<"d","o","c","k","e","r","f","i","l","e">>, condition |-> "isNew"],
         [text |-> <<"d","o","c","k","e","r","-","c","o","m","p","o","s","e">>, condition |-> "isNew"],
         [text |-> <<"k","u","b","e","r","n","e","t","e","s">>, condition |-> "isNew"],
         [text |-> <<"k","8","s">>, condition |-> "isNew"],
         [text |-> <<"h","e","l","m">>, condition |-> "isNew"],
         [text |-> <<"c","o","n","t","a","i","n","e","r">>, condition |-> "isNew"] >> ],
  [ key |-> "infrastructureAsCode", type |-> "Infrastructure as Code", level |-> 4,
    patterns |-> <<
         [text |-> <<"t","e","r","r","a","f","o","r","m">>, condition |-> "isNew"],
         [text |-> <<"c","l","o","u","d","f","o","r","m","a","t","i","o","n">>, condition |-> "isNew"],
         [text |-> <<"a","r","m">>, condition |-> "isNew"],
         [text |-> <<"p","u","l","u","m","i">>, condition |-> "isNew"],
         [text |-> <<"c","d","k">>, condition |-> "isNew"],
         [text |-> <<"s","e","r","v","e","r","l","e","s","s">>, condition |-> "isNew"] >> ],
  [ key |-> "databaseMigration", type |-> "Database Migration", level |-> 3,
    patterns |-> <<
         [text |-> <<"j","p","a">>, condition |-> "isNew"],
         [text |-> <<"h","i","b","e","r","n","a","t","e">>, condition |-> "isNew"],
         [text |-> <<"m","y","b","a","t","i","s">>, condition |-> "isNew"],
         [text |-> <<"s","e","q","u","e","l","i","z","e">>, condition |-> "isNew"],
         [text |-> <<"t","y","p","e","o","r","m">>, condition |-> "isNew"],
         [text |-> <<"s","q","l","a","l","c","h","e","m","y">>, condition |-> "isNew"],
         [text |-> <<"m","o","n","g","o","o","s","e">>, condition |-> "isNew"],
         [text |-> <<"p","r","i","s","m","a">>, condition |-> "isNew"],
         [text |-> <<"m","i","g","r","a","t","i","o","n">>, condition |-> "isNew"],
         [text |-> <<"s","c","h","e","m","a">>, condition |-> "isNew"] >> ]
>>

RECURSIVE flatten(_)
flatten(seqs) == IF seqs = <<>> THEN <<>> ELSE Head(seqs) \o flatten(Tail(seqs))

\* The rules of the library, each with the type and level of its entry, in
\* the order Object.entries and forEach walk them.
patternRules ==
  flatten([p \in DOMAIN patterns |->
             [r \in DOMAIN patterns[p].patterns |->
                [ type  |-> patterns[p].type,
                  level |-> patterns[p].level,
                  rule  |-> patterns[p].patterns[r] ]]])

\* hasNameChange: a recorded change mentions "name" or "identifier".  A value
\* without a changes array has none.
hasNameChange(node) ==
  /\ "changes" \in DOMAIN node
  /\ \E i \in DOMAIN node.changes :
       \/ includes(toLowerCase(node.changes[i]), <<"n","a","m","e">>)
       \/ includes(toLowerCase(node.changes[i]), <<"i","d","e","n","t","i","f","i","e","r">>)

\* matchesPattern.  node.type and node.text are undefined on a value that
\* lacks the field.
matchesPattern(node, rule, condition) ==
  IF "type" \in DOMAIN rule /\ ("type" \notin DOMAIN node \/ rule.type # node.type)
    THEN FALSE
  ELSE IF /\ "text" \in DOMAIN rule
          /\ ~includes(IF "text" \in DOMAIN node THEN toLowerCase(node.text) ELSE <<>>,
                       toLowerCase(rule.text))
    THEN FALSE
  ELSE CASE rule.condition = "isNew"       -> condition = "added"
         [] rule.condition = "removed"     -> condition = "removed"
         [] rule.condition = "nameChanged" -> condition = "modified" /\ hasNameChange(node)
         [] OTHER                          -> TRUE

\* generateEvidence.
generateEvidence(node, rule) ==
  join(   (IF "text" \in DOMAIN rule THEN << <<"F","o","u","n","d"," ">> \o rule.text \o <<" ","u","s","a","g","e">> >> ELSE <<>>)
       \o (IF "metadata" \in DOMAIN node /\ node.metadata.name # NoName
             THEN << <<"i","n"," ">> \o node.metadata.name >> ELSE <<>>)
       \o (IF "type" \in DOMAIN node
             THEN << <<"(">> \o TypeText[node.type] \o <<")">> >> ELSE <<>>),
       <<" ">>)

\* calculateConfidence, as a fraction.
calculateConfidence(node, rule) ==
  LET tenths ==
          5
        + (IF /\ "text" \in DOMAIN rule /\ "text" \in DOMAIN node
              /\ includes(toLowerCase(node.text), toLowerCase(rule.text)) THEN 3 ELSE 0)
        + (IF "type" \in DOMAIN rule /\ "type" \in DOMAIN node /\ rule.type = node.type
             THEN 2 ELSE 0)
        + (IF "metadata" \in DOMAIN node /\ node.metadata.name # NoName THEN 1 ELSE 0)
        + (IF "metadata" \in DOMAIN node /\ Len(node.metadata.imports) > 0 THEN 1 ELSE 0)
  IN  Frac(Min({tenths, 10}), 10)

\* detectPatterns.
detectPatterns(node, condition) ==
  LET hits == SelectSeq(patternRules, LAMBDA pr : matchesPattern(node, pr.rule, condition))
  IN  [k \in DOMAIN hits |->
         [ type       |-> hits[k].type,
           level      |-> hits[k].level,
           evidence   |-> << generateEvidence(node, hits[k].rule) >>,
           confidence |-> calculateConfidence(node, hits[k].rule) ]]

\* The texts of the rules of the library.
ruleTexts == {patternRules[k].rule.text : k \in {k \in DOMAIN patternRules :
                                                  "text" \in DOMAIN patternRules[k].rule}}

\* The rule texts a line of a patch holds, lower-cased as analyzeFileChanges
\* compares them.
ruleTextsIn(line) == {t \in ruleTexts : includes(toLowerCase(line), toLowerCase(t))}

\* The lines the patches of the model are made of, and the rule texts in each.
patchLines ==
  { <<"I","n","d","e","x",":"," ","m","a","i","n">>,
    <<"=","=","=","=","=","=","=","=","=","=","=","=","=","=","=","=","=","=","=","=","=","=","=","=","=","=","=","=","=","=","=","=","=","=","=","=","=","=","=","=","=","=","=","=","=","=","=","=","=","=","=","=","=","=","=","=","=","=","=","=","=","=","=","=","=","=","=">>,
    <<"-","-","-"," ","m","a","i","n">>,
    <<"+","+","+"," ","m","a","i","n">> }
  \cup {<<op>> \o Statements[s].text : op \in {"+", "-", " "}, s \in DOMAIN Statements}

patchLineRuleTexts == [line \in patchLines |-> ruleTextsIn(line)]

\* The rule texts diffContent.includes(rule.text.toLowerCase()) finds in a
\* patch: no rule text holds a newline, so a text is in the patch exactly when
\* it is in a line of it.
ruleTextsOfPatch(textDiff) ==
  UNION { IF textDiff[i] \in patchLines THEN patchLineRuleTexts[textDiff[i]]
          ELSE ruleTextsIn(textDiff[i]) : i \in DOMAIN textDiff }

\* analyzeFileChanges without its search of the patch for the rule texts.
analyzeFileChangesSummaryOnly(file) ==
  IF /\ file.changes.astDiffSummary # <<>>
     /\ (\/ includes(toLowerCase(file.changes.astDiffSummary), <<"i","m","p","o","r","t">>)
         \/ includes(toLowerCase(file.changes.astDiffSummary), <<"d","e","p","e","n","d","e","n","c","y">>))
    THEN << [ type       |-> "Move/Modularize",
              level      |-> 2,
              evidence   |-> << <<"I","m","p","o","r","t","/","d","e","p","e","n","d","e","n","c","y"," ","c","h","a","n","g","e","s"," ","d","e","t","e","c","t","e","d">> >>,
              confidence |-> Frac(7, 10) ] >>
    ELSE <<>>

\* analyzeFileChanges.
analyzeFileChanges(file) ==
  LET found == ruleTextsOfPatch(file.changes.textDiff)
      hits == SelectSeq(patternRules,
                LAMBDA pr : "text" \in DOMAIN pr.rule /\ pr.rule.text \in found)
      fromText ==
        IF file.changes.textDiff = <<>> THEN <<>>
        ELSE [k \in DOMAIN hits |->
                [ type       |-> hits[k].type,
                  level      |-> hits[k].level,
                  evidence   |-> << <<"F","o","u","n","d"," ">> \o hits[k].rule.text \o <<" ","i","n"," ","f","i","l","e"," ","c","h","a","n","g","e","s">> >>,
                  confidence |-> Frac(8, 10) ]]
      summary == toLowerCase(file.changes.astDiffSummary)
      fromSummary ==
        IF /\ file.changes.astDiffSummary # <<>>
           /\ (includes(summary, <<"i","m","p","o","r","t">>) \/ includes(summary, <<"d","e","p","e","n","d","e","n","c","y">>))
          THEN << [ type       |-> "Move/Modularize",
                    level      |-> 2,
                    evidence   |-> << <<"I","m","p","o","r","t","/","d","e","p","e","n","d","e","n","c","y"," ","c","h","a","n","g","e","s"," ","d","e","t","e","c","t","e","d">> >>,
                    confidence |-> Frac(7, 10) ] >>
          ELSE <<>>
  IN  fromText \o fromSummary

RECURSIVE gcd(_, _)
gcd(a, b) == IF b = 0 THEN a ELSE gcd(b, a % b)

\* (a + b) / 2, in lowest terms.
average(a, b) ==
  LET n == a.num * b.den + b.num * a.den
      d == 2 * a.den * b.den
  IN  Frac(n \div gcd(n, d), d \div gcd(n, d))

\* [...new Set(items)]: the first of each.
unique(items) ==
  LET firsts == SelectSeq([i \in DOMAIN items |-> i],
                  LAMBDA i : \A j \in 1..(i - 1) : items[j] # items[i])
  IN  [k \in DOMAIN firsts |-> items[firsts[k]]]

\* The Map of mergeRefactorTypes after the detections, in insertion order.
RECURSIVE mergeInto(_, _)
mergeInto(merged, detections) ==
  IF detections = <<>> THEN merged
  ELSE LET refactor == Head(detections)
           at == {i \in DOMAIN merged : merged[i].type = refactor.type}
       IN  IF at # {}
             THEN LET i == CHOOSE i \in at : TRUE
                      existing == merged[i]
                  IN  mergeInto(
                        [merged EXCEPT ![i] =
                           [ type       |-> existing.type,
                             level      |-> Max({existing.level, refactor.level}),
                             evidence   |-> unique(existing.evidence \o refactor.evidence),
                             confidence |-> average(existing.confidence, refactor.confidence) ]],
                        Tail(detections))
             ELSE mergeInto(Append(merged, refactor), Tail(detections))

\* No sort: the tags in the order given.
sortByLevelKept(tags) == tags

\* Array.prototype.sort((a, b) => b.level - a.level): stable, the higher level
\* first.
RECURSIVE sortByLevel(_)
sortByLevel(tags) ==
  IF tags = <<>> THEN <<>>
  ELSE LET top == Max({tags[i].level : i \in DOMAIN tags})
       IN  SelectSeq(tags, LAMBDA t : t.level = top)
           \o sortByLevel(SelectSeq(tags, LAMBDA t : t.level # top))

\* mergeRefactorTypes that keeps the first detection of each type as it is.
mergeRefactorTypesKeepFirst(detections) ==
  sortByLevel(SelectSeq([i \in DOMAIN detections |->
                           IF \A j \in 1..(i - 1) : detections[j].type # detections[i].type
                             THEN detections[i] ELSE <<>>],
                        LAMBDA d : d # <<>>))

\* mergeRefactorTypes.
mergeRefactorTypes(detections) == sortByLevel(mergeInto(<<>>, detections))

\* What classify does with a node collection it reads off astDiffs.overall:
\* nothing, when overall has no such field.
detectIn(diffs, field, condition) ==
  IF "overall" \in DOMAIN diffs /\ field \in DOMAIN diffs.overall
    THEN flatten([k \in DOMAIN diffs.overall[field] |->
                    detectPatterns(diffs.overall[field][k], condition)])
    ELSE <<>>

\* classify.
classify(diffs, language) ==
  mergeRefactorTypes(
       detectIn(diffs, "addedNodes", "added")
    \o detectIn(diffs, "removedNodes", "removed")
    \o detectIn(diffs, "modifiedNodes", "modified")
    \o (IF "files" \in DOMAIN diffs
          THEN flatten([f \in DOMAIN diffs.files |-> analyzeFileChanges(diffs.files[f])])
          ELSE <<>>))

-----------------------------------------------------------------------------
(* Impact scorer.  A normalized metric is held in thousandths; the weights  *)
(* are held in hundredths.  On the line counts, node counts and tags of     *)
(* this model the rounded score is the one the doubles of JavaScript give.  *)

\* Math.exp(-r / 100) for r = 0..99, in ten-thousandths.
expOfHundredths == <<
  10000, 9900, 9802, 9704, 9608, 9512, 9418, 9324, 9231, 9139,
  9048, 8958, 8869, 8781, 8694, 8607, 8521, 8437, 8353, 8270,
  8187, 8106, 8025, 7945, 7866, 7788, 7711, 7634, 7558, 7483,
  7408, 7334, 7261, 7189, 7118, 7047, 6977, 6907, 6839, 6771,
  6703, 6637, 6570, 6505, 6440, 6376, 6313, 6250, 6188, 6126,
  6065, 6005, 5945, 5886, 5827, 5769, 5712, 5655, 5599, 5543,
  5488, 5434, 5379, 5326, 5273, 5220, 5169, 5117, 5066, 5016,
  4966, 4916, 4868, 4819, 4771, 4724, 4677, 4630, 4584, 4538,
  4493, 4449, 4404, 4360, 4317, 4274, 4232, 4190, 4148, 4107,
  4066, 4025, 3985, 3946, 3906, 3867, 3829, 3791, 3753, 3716 >>

\* Math.exp(2 - q) for q = 0..12, in ten-thousandths; below that it rounds to 0.
expOfUnits == <<
  73891, 27183, 10000, 3679, 1353, 498, 183,
  67, 25, 9, 3, 1, 0 >>

\* Math.exp(-(x - 2 * step) / step), in ten-thousandths, for a step that
\* divides 100: the product of the two tables.
expCurve(x, step) ==
  LET q == x \div step
      r == (x % step) * (100 \div step)
  IN  IF q + 1 > Len(expOfUnits) THEN 0
      ELSE (expOfUnits[q + 1] * expOfHundredths[r + 1]) \div 10000

\* this.weights, in hundredths.
weights ==
  [ linesChanged |-> 30, astNodesChanged |-> 25, newInfrastructure |-> 20,
    testCoverage |-> 15, complexityDelta |-> 10 ]

\* this.levelThresholds.
levelThresholds == <<20, 40, 60, 80>>

Clamp(x, lo, hi) == IF x < lo THEN lo ELSE IF x > hi THEN hi ELSE x

\* normalizeLinesChanged: 100 / (1 + Math.exp(-(lines - 200) / 100)).
normalizeLinesChanged(lines) ==
  IF lines = 0 THEN 0
  ELSE Min({1000000000 \div (10000 + expCurve(lines, 100)), 100000})

\* normalizeASTNodes: 100 / (1 + Math.exp(-(nodes - 50) / 25)).
normalizeASTNodes(nodes) ==
  IF nodes = 0 THEN 0
  ELSE Min({1000000000 \div (10000 + expCurve(nodes, 25)), 100000})

\* normalizeInfrastructure.
normalizeInfrastructure(components) == Min({components * 20, 100}) * 1000

\* normalizeTestCoverage.
normalizeTestCoverage(delta) == Clamp((delta + 50) * 2, 0, 100) * 1000

\* normalizeComplexity.
normalizeComplexity(delta) == Clamp((10 - delta) * 5, 0, 100) * 1000

infrastructureTypes ==
  {"Service Extraction", "Cloud Migration", "Containerization",
   "Infrastructure as Code", "Event-driven"}

complexTypes ==
  {"Service Extraction", "Cloud Migration", "Event-driven", "Infrastructure as Code"}

simplifyingTypes == {"Extract Method", "Inline Method", "Rename Symbol"}

RECURSIVE sum(_)
sum(s) == IF s = <<>> THEN 0 ELSE Head(s) + sum(Tail(s))

\* calculateComplexityDelta.
calculateComplexityDelta(tags) ==
  LET added == sum([i \in DOMAIN tags |->
                      IF tags[i].type \in complexTypes THEN tags[i].level * 2
                      ELSE tags[i].level])
      saved == sum([i \in DOMAIN tags |->
                      IF tags[i].type \in simplifyingTypes THEN tags[i].level ELSE 0])
  IN  Max({added - saved, 0 - 10})

\* calculateTestCoverageDelta.
calculateTestCoverageDelta(tags) ==
  Clamp(sum([i \in DOMAIN tags |->
               IF tags[i].type = "Testing" THEN tags[i].level * 10
               ELSE IF tags[i].level >= 3 THEN 0 - 5 ELSE 0]),
        0 - 50, 50)

\* A field of astDiffs.overall, 0 when overall has no such field.
overallCount(diffs, field) ==
  IF field \in DOMAIN diffs.overall THEN diffs.overall[field] ELSE 0

\* calculateMetrics on a metrics object that the scorer keeps between its
\* calls: the counts of the analysis scored before are still in it.
calculateMetricsKept(diffs, tags, language) ==
  LET kept == IF pc \in {"scored", "scanned", "completed"}
                THEN impactMetrics.detailed
              ELSE IF second # <<>> /\ second.pc \in {"scored", "scanned"}
                THEN second.impactMetrics.detailed
              ELSE [totalLinesChanged |-> 0, astNodesChanged |-> 0]
  IN  [ totalLinesChanged |->
          kept.totalLinesChanged
          + overallCount(diffs, "linesAdded") + overallCount(diffs, "linesRemoved")
          + overallCount(diffs, "linesModified"),
        astNodesChanged |->
          kept.astNodesChanged
          + overallCount(diffs, "nodesAdded") + overallCount(diffs, "nodesRemoved")
          + overallCount(diffs, "nodesModified"),
        filesModified |-> IF "files" \in DOMAIN diffs THEN Len(diffs.files) ELSE 0,
        newInfrastructureComponents |->
          Cardinality({i \in DOMAIN tags : tags[i].type \in infrastructureTypes}),
        architecturalChanges |-> Cardinality({i \in DOMAIN tags : tags[i].level >= 4}),
        cyclomaticComplexityDelta |-> calculateComplexityDelta(tags),
        testCoverageDelta |-> calculateTestCoverageDelta(tags) ]

\* calculateMetrics followed by adjustForLanguage, which multiplies the
\* complexity delta and the infrastructure components by the factors of the
\* language (in tenths here, the product cut to an integer).
calculateMetricsAdjusted(diffs, tags, language) ==
  LET complexityMultiplier ==
        IF language = "java" THEN 11 ELSE IF language = "javascript" THEN 9 ELSE 10
      infrastructureWeight == IF language = "java" THEN 12 ELSE 10
  IN  [ totalLinesChanged |->
          IF "overall" \in DOMAIN diffs
            THEN overallCount(diffs, "linesAdded") + overallCount(diffs, "linesRemoved")
                 + overallCount(diffs, "linesModified")
            ELSE 0,
        astNodesChanged |->
          IF "overall" \in DOMAIN diffs
            THEN overallCount(diffs, "nodesAdded") + overallCount(diffs, "nodesRemoved")
                 + overallCount(diffs, "nodesModified")
            ELSE 0,
        filesModified |-> IF "files" \in DOMAIN diffs THEN Len(diffs.files) ELSE 0,
        newInfrastructureComponents |->
          (Cardinality({i \in DOMAIN tags : tags[i].type \in infrastructureTypes})
           * infrastructureWeight) \div 10,
        architecturalChanges |-> Cardinality({i \in DOMAIN tags : tags[i].level >= 4}),
        cyclomaticComplexityDelta |->
          (calculateComplexityDelta(tags) * complexityMultiplier) \div 10,
        testCoverageDelta |-> calculateTestCoverageDelta(tags) ]

\* calculateMetrics (the dependency lists apart).
calculateMetrics(diffs, tags, language) ==
  [ totalLinesChanged |->
      IF "overall" \in DOMAIN diffs
        THEN overallCount(diffs, "linesAdded") + overallCount(diffs, "linesRemoved")
             + overallCount(diffs, "linesModified")
        ELSE 0,
    astNodesChanged |->
      IF "overall" \in DOMAIN diffs
        THEN overallCount(diffs, "nodesAdded") + overallCount(diffs, "nodesRemoved")
             + overallCount(diffs, "nodesModified")
        ELSE 0,
    filesModified |-> IF "files" \in DOMAIN diffs THEN Len(diffs.files) ELSE 0,
    newInfrastructureComponents |->
      Cardinality({i \in DOMAIN tags : tags[i].type \in infrastructureTypes}),
    architecturalChanges |-> Cardinality({i \in DOMAIN tags : tags[i].level >= 4}),
    cyclomaticComplexityDelta |-> calculateComplexityDelta(tags),
    testCoverageDelta |-> calculateTestCoverageDelta(tags) ]

\* calculateOverallScore without Math.round: the weighted sum, in hundredths.
calculateOverallScoreUnrounded(metrics) ==
  (   normalizeLinesChanged(metrics.totalLinesChanged) * weights.linesChanged
    + normalizeASTNodes(metrics.astNodesChanged) * weights.astNodesChanged
    + normalizeInfrastructure(metrics.newInfrastructureComponents) * weights.newInfrastructure
    + normalizeTestCoverage(metrics.testCoverageDelta) * weights.testCoverage
    + normalizeComplexity(metrics.cyclomaticComplexityDelta) * weights.complexityDelta )
  \div 1000

\* calculateOverallScore: the weighted sum, clamped to [0, 100], then
\* Math.round, which takes a half upwards.
calculateOverallScore(metrics) ==
  LET score ==
          normalizeLinesChanged(metrics.totalLinesChanged) * weights.linesChanged
        + normalizeASTNodes(metrics.astNodesChanged) * weights.astNodesChanged
        + normalizeInfrastructure(metrics.newInfrastructureComponents) * weights.newInfrastructure
        + normalizeTestCoverage(metrics.testCoverageDelta) * weights.testCoverage
        + normalizeComplexity(metrics.cyclomaticComplexityDelta) * weights.complexityDelta
  IN  (Clamp(score, 0, 10000000) + 50000) \div 100000

\* determineLevel with > for >=: a threshold belongs to the level below.
determineLevelAboveThreshold(score) ==
  IF score > levelThresholds[4] THEN 4
  ELSE IF score > levelThresholds[3] THEN 3
  ELSE IF score > levelThresholds[2] THEN 2
  ELSE IF score > levelThresholds[1] THEN 1
  ELSE 0

\* determineLevel.
determineLevel(score) ==
  IF score >= levelThresholds[4] THEN 4
  ELSE IF score >= levelThresholds[3] THEN 3
  ELSE IF score >= levelThresholds[2] THEN 2
  ELSE IF score >= levelThresholds[1] THEN 1
  ELSE 0

\* calculate.
calculate(diffs, tags, language) ==
  LET metrics == calculateMetrics(diffs, tags, language)
      overallScore == calculateOverallScore(metrics)
  IN  [ overallScore |-> overallScore,
        level        |-> determineLevel(overallScore),
        detailed     |-> metrics ]

-----------------------------------------------------------------------------
(* Risk scanner.  A regular expression is a tuple of elements: a literal, a *)
(* character class with the least and the most repetitions (most = -1 for   *)
(* no limit), or the end of a line ($ under the m flag).                    *)

Lit(s) == [lit |-> s]

Class(set, negated, least, most) ==
  [chars |-> set, negated |-> negated, least |-> least, most |-> most]

EndOfLine == [eol |-> TRUE]

WhiteSpace == {" ", "\t", "\n"}

Quotes == {"\"", "'"}

Separators == {"_", "-"}

Digits == Range(Digit)

Spaces == Class(WhiteSpace, FALSE, 0, -1)      \* \s*

MaybeSeparator == Class(Separators, FALSE, 0, 1)  \* [_-]?

\* lit\s*=\s*["'][^"']+["'] after the elements given.
Assigned(prefix) ==
  prefix \o << Spaces, Lit(<<"=">>), Spaces, Class(Quotes, FALSE, 1, 1),
               Class(Quotes, TRUE, 1, -1), Class(Quotes, FALSE, 1, 1) >>

\* lit\s*\( after the elements given.
Called(prefix) == prefix \o << Spaces, Lit(<<"(">>) >>

\* lit\s*\(\s*['"]arg['"].
CalledWith(prefix, arg) ==
  Called(prefix) \o << Spaces, Class(Quotes, FALSE, 1, 1), Lit(arg), Class(Quotes, FALSE, 1, 1) >>

\* lit\s*\(\s*["'][^"']*\+.
CalledWithConcatenation(prefix) ==
  Called(prefix) \o << Spaces, Class(Quotes, FALSE, 1, 1), Class(Quotes, TRUE, 0, -1), Lit(<<"+">>) >>

\* lit\s*\(\s*[^)]*\.\.
CalledWithDots(prefix) ==
  Called(prefix) \o << Spaces, Class({")"}, TRUE, 0, -1), Lit(<<".",".">>) >>

Re(flags, elements) == [ignoreCase |-> flags = "gi", elements |-> elements]

\* initializeSecurityPatterns.
securityPatterns == <<
  [ category |-> "secrets", severity |-> "high", type |-> "security",
    patterns |-> <<
      Re("gi", Assigned(<< Lit(<<"p","a","s","s","w","o","r","d">>) >>)),
      Re("gi", Assigned(<< Lit(<<"a","p","i">>), MaybeSeparator, Lit(<<"k","e","y">>) >>)),
      Re("gi", Assigned(<< Lit(<<"s","e","c","r","e","t">>) >>)),
      Re("gi", Assigned(<< Lit(<<"t","o","k","e","n">>) >>)),
      Re("gi", Assigned(<< Lit(<<"a","c","c","e","s","s">>), MaybeSeparator, Lit(<<"k","e","y">>) >>)),
      Re("gi", Assigned(<< Lit(<<"p","r","i","v","a","t","e">>), MaybeSeparator, Lit(<<"k","e","y">>) >>)),
      Re("gi", << Lit(<<"a","w","s">>), MaybeSeparator, Lit(<<"a","c","c","e","s","s">>), MaybeSeparator, Lit(<<"k","e","y">>) >>),
      Re("gi", << Lit(<<"a","w","s">>), MaybeSeparator, Lit(<<"s","e","c","r","e","t">>), MaybeSeparator, Lit(<<"k","e","y">>) >>),
      Re("gi", << Lit(<<"g","i","t","h","u","b">>), MaybeSeparator, Lit(<<"t","o","k","e","n">>) >>),
      Re("gi", << Lit(<<"d","a","t","a","b","a","s","e">>), MaybeSeparator, Lit(<<"p","a","s","s","w","o","r","d">>) >>) >> ],
  [ category |-> "deprecatedCrypto", severity |-> "medium", type |-> "security",
    patterns |-> <<
      Re("gi", Called(<< Lit(<<"m","d","5">>) >>)),
      Re("gi", Called(<< Lit(<<"s","h","a","1">>) >>)),
      Re("gi", Called(<< Lit(<<"d","e","s">>) >>)),
      Re("gi", Called(<< Lit(<<"r","c","4">>) >>)),
      Re("gi", CalledWith(<< Lit(<<"c","r","y","p","t","o",".","c","r","e","a","t","e","H","a","s","h">>) >>, <<"m","d","5">>)),
      Re("gi", CalledWith(<< Lit(<<"c","r","y","p","t","o",".","c","r","e","a","t","e","H","a","s","h">>) >>, <<"s","h","a","1">>)),
      Re("gi", CalledWith(<< Lit(<<"M","e","s","s","a","g","e","D","i","g","e","s","t",".","g","e","t","I","n","s","t","a","n","c","e">>) >>, <<"M","D","5">>)),
      Re("gi", CalledWith(<< Lit(<<"M","e","s","s","a","g","e","D","i","g","e","s","t",".","g","e","t","I","n","s","t","a","n","c","e">>) >>, <<"S","H","A","1">>)) >> ],
  [ category |-> "sqlInjection", severity |-> "high", type |-> "security",
    patterns |-> <<
      Re("gi", CalledWithConcatenation(<< Lit(<<"e","x","e","c","u","t","e","Q","u","e","r","y">>) >>)),
      Re("gi", CalledWithConcatenation(<< Lit(<<"q","u","e","r","y">>) >>)),
      Re("gi", CalledWithConcatenation(<< Lit(<<"S","t","a","t","e","m","e","n","t",".","e","x","e","c","u","t","e">>) >>)),
      Re("gi", CalledWithConcatenation(<< Lit(<<"c","u","r","s","o","r",".","e","x","e","c","u","t","e">>) >>)) >> ],
  [ category |-> "xss", severity |-> "medium", type |-> "security",
    patterns |-> <<
      Re("gm", << Lit(<<"i","n","n","e","r","H","T","M","L">>), Spaces, Lit(<<"=">>), Spaces,
                  Class({";"}, TRUE, 1, -1), EndOfLine >>),
      Re("gi", Called(<< Lit(<<"d","o","c","u","m","e","n","t",".","w","r","i","t","e">>) >>)),
      Re("gi", Called(<< Lit(<<"e","v","a","l">>) >>)),
      Re("gi", Called(<< Lit(<<"F","u","n","c","t","i","o","n">>) >>)),
      Re("gi", Called(<< Lit(<<"s","e","t","T","i","m","e","o","u","t">>) >>)
               \o << Class({","}, TRUE, 1, -1), Lit(<<",">>), Spaces, Lit(<<"0",")">>) >>) >> ],
  [ category |-> "pathTraversal", severity |-> "high", type |-> "security",
    patterns |-> <<
      Re("g", << Lit(<<".",".","/",".",".","/">>) >>),
      Re("g", << Lit(<<".",".","\\",".",".","\\">>) >>),
      Re("gi", << Lit(<<".",".","%","2","f",".",".","%","2","f">>) >>),
      Re("gi", << Lit(<<".",".","%","5","c",".",".","%","5","c">>) >>),
      Re("gi", CalledWithDots(<< Lit(<<"r","e","a","d","F","i","l","e">>) >>)),
      Re("gi", CalledWithDots(<< Lit(<<"o","p","e","n">>) >>)) >> ]
>>

\* [_-]?-joined words, as in gnu[_-]?general[_-]?public[_-]?license.
RECURSIVE Joined(_)
Joined(words) ==
  IF Len(words) = 1 THEN << Lit(words[1]) >>
  ELSE << Lit(words[1]), MaybeSeparator >> \o Joined(Tail(words))

\* initializeLicensePatterns.
licensePatterns == <<
  [ license |-> "gpl", type |-> "license", severity |-> "high",
    description |-> <<"G","P","L"," ","l","i","c","e","n","s","e"," ","m","a","y"," ","r","e","q","u","i","r","e"," ","s","o","u","r","c","e"," ","c","o","d","e"," ","d","i","s","c","l","o","s","u","r","e">>,
    patterns |-> <<
      Re("gi", << Lit(<<"g","p","l">>), MaybeSeparator, Class({"v"}, FALSE, 0, 1),
                  Class(Digits, FALSE, 0, 1) >>),
      Re("gi", Joined(<< <<"g","n","u">>, <<"g","e","n","e","r","a","l">>, <<"p","u","b","l","i","c">>, <<"l","i","c","e","n","s","e">> >>)) >> ],
  [ license |-> "agpl", type |-> "license", severity |-> "critical",
    description |-> <<"A","G","P","L"," ","l","i","c","e","n","s","e"," ","r","e","q","u","i","r","e","s"," ","s","o","u","r","c","e"," ","c","o","d","e"," ","d","i","s","c","l","o","s","u","r","e"," ","f","o","r"," ","n","e","t","w","o","r","k"," ","s","e","r","v","i","c","e","s">>,
    patterns |-> <<
      Re("gi", << Lit(<<"a","g","p","l">>), MaybeSeparator, Class({"v"}, FALSE, 0, 1),
                  Class(Digits, FALSE, 0, 1) >>),
      Re("gi", Joined(<< <<"g","n","u">>, <<"a","f","f","e","r","o">>, <<"g","e","n","e","r","a","l">>, <<"p","u","b","l","i","c">>, <<"l","i","c","e","n","s","e">> >>)) >> ],
  [ license |-> "copyleft", type |-> "license", severity |-> "high",
    description |-> <<"C","o","p","y","l","e","f","t"," ","l","i","c","e","n","s","e"," ","m","a","y"," ","i","m","p","o","s","e"," ","r","e","s","t","r","i","c","t","i","o","n","s">>,
    patterns |-> <<
      Re("gi", << Lit(<<"c","o","p","y","l","e","f","t">>) >>),
      Re("gi", Joined(<< <<"c","o","p","y","l","e","f","t">>, <<"l","e","f","t">> >>)) >> ],
  [ license |-> "proprietary", type |-> "license", severity |-> "medium",
    description |-> <<"P","r","o","p","r","i","e","t","a","r","y"," ","l","i","c","e","n","s","e"," ","m","a","y"," ","r","e","q","u","i","r","e"," ","c","o","m","m","e","r","c","i","a","l"," ","a","g","r","e","e","m","e","n","t">>,
    patterns |-> <<
      Re("gi", << Lit(<<"p","r","o","p","r","i","e","t","a","r","y">>) >>),
      Re("gi", Joined(<< <<"c","o","m","m","e","r","c","i","a","l">>, <<"l","i","c","e","n","s","e">> >>)),
      Re("gi", Joined(<< <<"c","l","o","s","e","d">>, <<"s","o","u","r","c","e">> >>)) >> ]
>>

\* initializeCompatibilityPatterns.
compatibilityPatterns == <<
  [ category |-> "deprecatedAPIs", severity |-> "medium", type |-> "compatibility",
    patterns |-> <<
      Re("g", << Lit(<<"n","e","w">>), Class(WhiteSpace, FALSE, 1, -1), Lit(<<"D","a","t","e">>), Spaces,
                 Lit(<<"(">>), Class({")"}, TRUE, 0, -1), Lit(<<")">>) >>),
      Re("g", Called(<< Lit(<<".","c","a","l","l">>) >>) \o << Spaces, Lit(<<"n","u","l","l">>), Spaces, Lit(<<",">>) >>),
      Re("g", << Lit(<<"a","r","g","u","m","e","n","t","s",".","c","a","l","l","e","e">>) >>),
      Re("g", Called(<< Lit(<<"w","i","t","h">>) >>)),
      Re("g", Called(<< Lit(<<"e","v","a","l">>) >>)) >> ],
  [ category |-> "browserCompatibility", severity |-> "low", type |-> "compatibility",
    patterns |-> <<
      Re("g", << Lit(<<"d","o","c","u","m","e","n","t",".","a","l","l">>) >>),
      Re("g", << Lit(<<"w","i","n","d","o","w",".","e","v","e","n","t">>) >>),
      Re("g", << Lit(<<"a","t","t","a","c","h","E","v","e","n","t">>) >>),
      Re("g", << Lit(<<"d","e","t","a","c","h","E","v","e","n","t">>) >>),
      Re("g", << Lit(<<"c","r","e","a","t","e","S","t","y","l","e","S","h","e","e","t">>) >>) >> ],
  [ category |-> "nodeVersion", severity |-> "low", type |-> "compatibility",
    patterns |-> <<
      Re("g", << Lit(<<"p","r","o","c","e","s","s",".","v","e","r","s","i","o","n">>) >>),
      Re("g", Joined(<< <<"n","o","d","e">>, <<"v","e","r","s","i","o","n">> >>)),
      Re("g", Joined(<< <<"v","8">>, <<"v","e","r","s","i","o","n">> >>)) >> ]
>>

\* A character of the text against a character class.
inClass(element, c, ignoreCase) ==
  ((IF ignoreCase THEN LowerChar(c) ELSE c) \in element.chars) # element.negated

\* A literal at place i of the text.
literalAt(lit, text, i, ignoreCase) ==
  /\ i + Len(lit) - 1 <= Len(text)
  /\ \A j \in 1..Len(lit) :
       IF ignoreCase THEN LowerChar(text[i + j - 1]) = LowerChar(lit[j])
       ELSE text[i + j - 1] = lit[j]

\* The longest run of the class from place i, at most element.most long.
runLength(element, text, i, ignoreCase) ==
  LET limit == IF element.most = -1 THEN Len(text) - i + 1
               ELSE Min({element.most, Len(text) - i + 1})
  IN  Max({n \in 0..limit : \A j \in 0..(n - 1) : inClass(element, text[i + j], ignoreCase)})

\* The place after the match of the elements k.. that starts at place i, 0
\* when there is none.  A class takes the longest run that lets the rest
\* match, as a greedy quantifier does.
RECURSIVE matchEnd(_, _, _, _)
matchEnd(re, k, text, i) ==
  IF k > Len(re.elements) THEN i
  ELSE LET element == re.elements[k]
       IN  IF "lit" \in DOMAIN element
             THEN IF literalAt(element.lit, text, i, re.ignoreCase)
                    THEN matchEnd(re, k + 1, text, i + Len(element.lit))
                    ELSE 0
           ELSE IF "eol" \in DOMAIN element
             THEN IF i = Len(text) + 1 \/ text[i] = "\n"
                    THEN matchEnd(re, k + 1, text, i)
                    ELSE 0
           ELSE LET run == runLength(element, text, i, re.ignoreCase)
                    fits == {n \in element.least..run : matchEnd(re, k + 1, text, i + n) # 0}
                IN  IF fits = {} THEN 0 ELSE matchEnd(re, k + 1, text, i + Max(fits))

\* The matches of a g-flagged expression from place pos on, left to right,
\* none overlapping: their number.
RECURSIVE countMatchesFrom(_, _, _, _)
countMatchesFrom(re, text, starts, pos) ==
  LET rest == {i \in starts : i >= pos}
  IN  IF rest = {} THEN 0
      ELSE 1 + countMatchesFrom(re, text, starts, matchEnd(re, 1, text, Min(rest)))

\* sourceText.match(pattern): the number of matches, 0 for null.
matchCount(re, text) ==
  countMatchesFrom(re, text, {i \in 1..Len(text) : matchEnd(re, 1, text, i) # 0}, 1)

\* flag.type and flag.severity, as text.
WordText ==
  ("security" :> <<"s","e","c","u","r","i","t","y">>) @@ ("license" :> <<"l","i","c","e","n","s","e">>) @@
  ("compatibility" :> <<"c","o","m","p","a","t","i","b","i","l","i","t","y">>) @@
  ("low" :> <<"l","o","w">>) @@ ("medium" :> <<"m","e","d","i","u","m">>) @@ ("high" :> <<"h","i","g","h">>) @@
  ("critical" :> <<"c","r","i","t","i","c","a","l">>)

Occurrences(matchCount_) == <<" ","(">> \o NumberText(matchCount_) \o <<" ","o","c","c","u","r","r","e","n","c","e","s",")">>

\* generateSecurityDescription without its table: the default of every category.
generateSecurityDescriptionDefault(category, matchCount_) ==
  <<"S","e","c","u","r","i","t","y"," ","i","s","s","u","e"," ","d","e","t","e","c","t","e","d">> \o Occurrences(matchCount_)

\* generateSecurityDescription.
generateSecurityDescription(category, matchCount_) ==
  CASE category = "secrets" ->
         <<"P","o","t","e","n","t","i","a","l"," ","s","e","c","r","e","t"," ","e","x","p","o","s","u","r","e"," ","d","e","t","e","c","t","e","d">> \o Occurrences(matchCount_)
    [] category = "deprecatedCrypto" ->
         <<"D","e","p","r","e","c","a","t","e","d"," ","c","r","y","p","t","o","g","r","a","p","h","i","c"," ","f","u","n","c","t","i","o","n","s"," ","f","o","u","n","d">> \o Occurrences(matchCount_)
    [] category = "sqlInjection" ->
         <<"P","o","t","e","n","t","i","a","l"," ","S","Q","L"," ","i","n","j","e","c","t","i","o","n"," ","v","u","l","n","e","r","a","b","i","l","i","t","y">> \o Occurrences(matchCount_)
    [] category = "xss" ->
         <<"P","o","t","e","n","t","i","a","l"," ","X","S","S"," ","v","u","l","n","e","r","a","b","i","l","i","t","y">> \o Occurrences(matchCount_)
    [] category = "pathTraversal" ->
         <<"P","o","t","e","n","t","i","a","l"," ","p","a","t","h"," ","t","r","a","v","e","r","s","a","l"," ","v","u","l","n","e","r","a","b","i","l","i","t","y">> \o Occurrences(matchCount_)
    [] OTHER -> <<"S","e","c","u","r","i","t","y"," ","i","s","s","u","e"," ","d","e","t","e","c","t","e","d">> \o Occurrences(matchCount_)

\* generateSecuritySuggestion.
generateSecuritySuggestion(category) ==
  CASE category = "secrets" ->
         "Use environment variables or secure configuration management for secrets"
    [] category = "deprecatedCrypto" ->
         "Replace with modern cryptographic functions (SHA-256, AES-256)"
    [] category = "sqlInjection" -> "Use parameterized queries or prepared statements"
    [] category = "xss" -> "Sanitize user input and use Content Security Policy"
    [] category = "pathTraversal" ->
         "Validate and sanitize file paths, use path.join() or equivalent"
    [] OTHER -> "Review security best practices for this code"

\* generateCompatibilityDescription.
generateCompatibilityDescription(category, matchCount_) ==
  CASE category = "deprecatedAPIs" ->
         <<"D","e","p","r","e","c","a","t","e","d"," ","A","P","I"," ","u","s","a","g","e"," ","f","o","u","n","d">> \o Occurrences(matchCount_)
    [] category = "browserCompatibility" ->
         <<"B","r","o","w","s","e","r"," ","c","o","m","p","a","t","i","b","i","l","i","t","y"," ","i","s","s","u","e","s">> \o Occurrences(matchCount_)
    [] category = "nodeVersion" ->
         <<"N","o","d","e",".","j","s"," ","v","e","r","s","i","o","n"," ","d","e","p","e","n","d","e","n","c","i","e","s">> \o Occurrences(matchCount_)
    [] OTHER -> <<"C","o","m","p","a","t","i","b","i","l","i","t","y"," ","i","s","s","u","e"," ","d","e","t","e","c","t","e","d">> \o Occurrences(matchCount_)

\* generateCompatibilitySuggestion.
generateCompatibilitySuggestion(category) ==
  CASE category = "deprecatedAPIs" -> "Update to modern APIs and remove deprecated usage"
    [] category = "browserCompatibility" -> "Test across target browsers and update polyfills"
    [] category = "nodeVersion" -> "Specify minimum Node.js version in package.json"
    [] OTHER -> "Review compatibility requirements"

\* The patterns of a table, each with its entry, in the order they are tried.
patternsOf(table) ==
  flatten([c \in DOMAIN table |->
             [p \in DOMAIN table[c].patterns |->
                [config |-> table[c], pattern |-> table[c].patterns[p]]]])

\* The patterns of a table that match the text, each with its match count.
matchesIn(table, sourceText) ==
  LET tried == patternsOf(table)
      counted == [k \in DOMAIN tried |->
                    [ config |-> tried[k].config,
                      count  |-> matchCount(tried[k].pattern, sourceText) ]]
  IN  SelectSeq(counted, LAMBDA m : m.count > 0)

\* scanSecurity.
scanSecurity(sourceText) ==
  LET found == matchesIn(securityPatterns, sourceText)
  IN  [k \in DOMAIN found |->
         [ type        |-> "security",
           severity    |-> found[k].config.severity,
           description |-> generateSecurityDescription(found[k].config.category, found[k].count),
           suggestion  |-> generateSecuritySuggestion(found[k].config.category) ]]

\* scanLicenses.
scanLicenses(sourceText) ==
  LET found == matchesIn(licensePatterns, sourceText)
  IN  [k \in DOMAIN found |->
         [ type        |-> "license",
           severity    |-> found[k].config.severity,
           description |-> found[k].config.description,
           suggestion  |-> "Review license compatibility with your project requirements" ]]

\* scanCompatibility.
scanCompatibility(sourceText) ==
  LET found == matchesIn(compatibilityPatterns, sourceText)
  IN  [k \in DOMAIN found |->
         [ type        |-> "compatibility",
           severity    |-> found[k].config.severity,
           description |->
             generateCompatibilityDescription(found[k].config.category, found[k].count),
           suggestion  |-> generateCompatibilitySuggestion(found[k].config.category) ]]

\* The key of deduplicateFlags: `${flag.type}-${flag.severity}-${flag.description}`.
flagKey(flag) ==
  WordText[flag.type] \o <<"-">> \o WordText[flag.severity] \o <<"-">> \o flag.description

\* deduplicateFlags that keeps every flag.
deduplicateFlagsKeepAll(flags) == [i \in DOMAIN flags |-> [at |-> i, flag |-> flags[i]]]

\* deduplicateFlags: the first flag of each key.
deduplicateFlags(flags) ==
  SelectSeq([i \in DOMAIN flags |-> [at |-> i, flag |-> flags[i]]],
            LAMBDA f : \A j \in 1..(f.at - 1) : flagKey(flags[j]) # flagKey(f.flag))

\* The flags of the three scanners on each source of the model, security
\* first, then licenses, then compatibility.
scannedFlags ==
  [src \in Sources |->
     scanSecurity(SourceText(src)) \o scanLicenses(SourceText(src))
       \o scanCompatibility(SourceText(src))]

\* The flags scan collects before it deduplicates them.
collectFlags(code, includeSecurityScan) ==
  IF includeSecurityScan THEN scannedFlags[code] ELSE <<>>

\* scan.
scan(code, language, includeSecurityScan) ==
  LET kept == deduplicateFlags(collectFlags(code, includeSecurityScan))
  IN  [k \in DOMAIN kept |-> kept[k].flag]
-----------------------------------------------------------------------------
(* The routes of /analyze, the queue module and the collection of Analysis
   documents. *)

\* The analyses of one behaviour.
MaxAnalyses == 2

\* The ids uuidv4 hands out.
AnalysisIds == 1..MaxAnalyses

Null == <<>>   \* null, undefined

None == <<>>   \* not computed yet

\* Analysis.findOneAndUpdate: the fields of the update replace the document's.
findOneAndUpdate(document, update) == update @@ document

\* The callers of analyzeCodePair: the callback of setImmediate and the
\* processor of the queue.
Executors == {"inProcess", "processor"}

\* new Bull('analysis', redisUrl, {defaultJobOptions: {attempts: 1, ...}}),
\* with the processor that analysisQueue.process registers.
Bull == [name |-> "analysis", attempts |-> 1]

\* new Analysis({id, ...req.body, status: 'pending'}).save().
save(docs, doc) == (doc.id :> doc) @@ docs

\* Analysis.findOne({id}).
findOne(docs, id) == IF id \in DOMAIN docs THEN docs[id] ELSE Null

\* Analysis.findOneAndUpdate({id}, update) on the collection: no option asks
\* for an upsert, so nothing is written when no document has the id.
findOneAndUpdateUpserts(docs, id, update) ==
  IF id \in DOMAIN docs THEN [docs EXCEPT ![id] = findOneAndUpdate(@, update)]
  ELSE (id :> findOneAndUpdate([id |-> id], update)) @@ docs

findOneAndUpdateIn(docs, id, update) ==
  IF id \in DOMAIN docs THEN [docs EXCEPT ![id] = findOneAndUpdate(@, update)]
  ELSE docs

\* Analysis.findOneAndDelete({id}).
findOneAndDelete(docs, id) == [d \in DOMAIN docs \ {id} |-> docs[d]]

\* enqueueAnalysis: what it hands to setImmediate, what it adds to the queue,
\* and what it returns.
enqueueAnalysisDrops(queue, analysisId) ==
  IF queue = Null
    THEN [immediate |-> {}, job |-> {}, returns |-> [queued |-> FALSE]]
    ELSE [immediate |-> {}, job |-> {analysisId}, returns |-> [queued |-> TRUE]]

enqueueAnalysisBoth(queue, analysisId) ==
  IF queue = Null
    THEN [immediate |-> {analysisId}, job |-> {}, returns |-> [queued |-> FALSE]]
    ELSE [immediate |-> {analysisId}, job |-> {analysisId}, returns |-> [queued |-> TRUE]]

enqueueAnalysis(queue, analysisId) ==
  IF queue = Null
    THEN [immediate |-> {analysisId}, job |-> {}, returns |-> [queued |-> FALSE]]
    ELSE [immediate |-> {}, job |-> {analysisId}, returns |-> [queued |-> TRUE]]

\* The status of the reply of POST /analyze: 202 at the end of the try block,
\* 500 in the catch block.
postReplyAccepts(threw) == 202

postReply(threw) == IF threw THEN 500 ELSE 202

\* The server has started: no queue, no document, no request.
InitService ==
  /\ analysisQueue = Null
  /\ initialised = FALSE
  /\ analyses = <<>>
  /\ immediates = {}
  /\ jobs = {}
  /\ handlers = [i \in AnalysisIds |-> [at |-> "idle", returned |-> Null, res |-> 0]]
  /\ workers = [w \in AnalysisIds \X Executors |-> [at |-> "none", runs |-> 0]]
  /\ reply = Null

\* The variables of analyzeCodePair's steps, which the routes leave alone.
stepVars ==
  <<pc, request, legacyAST, refactoredAST, mappings, astChanges, astDiffs,
    refactorTypes, impactMetrics, riskFlags, scoreArg, levelOut, analysis, second>>

\* The callback of app.listen: initQueue, once the database is connected.
\* Without REDIS_URL, or when new Bull throws, analysisQueue stays null.
InitQueue ==
  /\ ~initialised
  /\ initialised' = TRUE
  /\ \E redisUrl \in BOOLEAN, throws \in BOOLEAN :
       analysisQueue' = IF redisUrl /\ ~throws THEN Bull ELSE analysisQueue
  /\ UNCHANGED <<analyses, immediates, jobs, handlers, workers, reply, stepVars>>

\* POST /analyze up to the end of await analysis.save().
PostAnalyze(i) ==
  /\ handlers[i].at = "idle"
  /\ analyses' = save(analyses, [id |-> i, status |-> "pending"])
  /\ handlers' = [handlers EXCEPT ![i].at = "saved"]
  /\ UNCHANGED <<analysisQueue, initialised, immediates, jobs, workers, reply, stepVars>>

\* analysis.save() throws: the catch block answers.
PostSaveThrows(i) ==
  /\ handlers[i].at = "idle"
  /\ handlers' = [handlers EXCEPT ![i].at = "saveThrew", ![i].res = postReply(TRUE)]
  /\ UNCHANGED <<analysisQueue, initialised, analyses, immediates, jobs, workers, reply,
                 stepVars>>

\* POST /analyze from await enqueueAnalysis on.  Without a queue
\* enqueueAnalysis returns in the same turn of the event loop and the reply
\* is sent before the callback of setImmediate runs; with a queue the handler
\* waits for analysisQueue.add.
PostEnqueue(i) ==
  /\ handlers[i].at = "saved"
  /\ LET enqueued == enqueueAnalysis(analysisQueue, i)
     IN  /\ immediates' = immediates \cup enqueued.immediate
         /\ jobs' = jobs \cup enqueued.job
         /\ handlers' =
              IF enqueued.job = {}
                THEN [handlers EXCEPT ![i] = [at |-> "accepted",
                                              returned |-> enqueued.returns,
                                              res |-> postReply(FALSE)]]
                ELSE [handlers EXCEPT ![i].at = "added"]
  /\ UNCHANGED <<analysisQueue, initialised, analyses, workers, reply, stepVars>>

\* analysisQueue.add throws: the catch block answers.
PostEnqueueThrows(i) ==
  /\ handlers[i].at = "saved"
  /\ analysisQueue # Null
  /\ handlers' = [handlers EXCEPT ![i].at = "enqueueThrew", ![i].res = postReply(TRUE)]
  /\ UNCHANGED <<analysisQueue, initialised, analyses, immediates, jobs, workers, reply,
                 stepVars>>

\* analysisQueue.add has resolved: enqueueAnalysis returns and the handler
\* answers.
PostRespond(i) ==
  /\ handlers[i].at = "added"
  /\ handlers' = [handlers EXCEPT ![i] = [at |-> "accepted",
                                          returned |-> [queued |-> TRUE],
                                          res |-> postReply(FALSE)]]
  /\ UNCHANGED <<analysisQueue, initialised, analyses, immediates, jobs, workers, reply,
                 stepVars>>

\* The callback of setImmediate calls analyzeCodePair.
RunImmediate(i) ==
  /\ i \in immediates
  /\ immediates' = immediates \ {i}
  /\ workers' = [workers EXCEPT ![<<i, "inProcess">>] =
                   [at |-> "start", runs |-> @.runs + 1]]
  /\ UNCHANGED <<analysisQueue, initialised, analyses, jobs, handlers, reply, stepVars>>

\* The processor of the queue takes a job and calls analyzeCodePair.
ProcessJob(i) ==
  /\ analysisQueue # Null
  /\ i \in jobs
  /\ jobs' = jobs \ {i}
  /\ workers' = [workers EXCEPT ![<<i, "processor">>] =
                   [at |-> "start", runs |-> @.runs + 1]]
  /\ UNCHANGED <<analysisQueue, initialised, analyses, immediates, handlers, reply,
                 stepVars>>

\* analyzeCodePair from the update to processing to the results: steps 1 to 8.
\* A failure of the clustering of step 4.5 is caught where it happens; a
\* failure of another step goes to the catch block.
UpdateProcessing(i, by) ==
  /\ workers[<<i, by>>].at = "start"
  /\ analyses' = findOneAndUpdateIn(analyses, i, [status |-> "processing"])
  /\ \E clusteringThrows \in BOOLEAN, stepThrows \in BOOLEAN :
       workers' = [workers EXCEPT ![<<i, by>>].at =
                     IF stepThrows THEN "catch" ELSE "compiled"]
  /\ UNCHANGED <<analysisQueue, initialised, immediates, jobs, handlers, reply, stepVars>>

\* The update to processing throws, inside the try block.
UpdateProcessingThrows(i, by) ==
  /\ workers[<<i, by>>].at = "start"
  /\ workers' = [workers EXCEPT ![<<i, by>>].at = "catch"]
  /\ UNCHANGED <<analysisQueue, initialised, analyses, immediates, jobs, handlers, reply,
                 stepVars>>

\* The update to completed and what follows it.  Reading updatedAnalysis.user
\* throws when no document was found.  When the document names a user the
\* completion e-mail is sent, and its failure is caught and logged.
UpdateCompleted(i, by) ==
  /\ workers[<<i, by>>].at = "compiled"
  /\ analyses' = findOneAndUpdateIn(analyses, i, [status |-> "completed"])
  /\ LET updatedAnalysis == findOne(analyses', i)
     IN  \E user \in BOOLEAN, mailThrows \in BOOLEAN :
           workers' = [workers EXCEPT ![<<i, by>>].at =
                         IF updatedAnalysis = Null THEN "catch" ELSE "returned"]
  /\ UNCHANGED <<analysisQueue, initialised, immediates, jobs, handlers, reply, stepVars>>

\* The update to completed throws.
UpdateCompletedThrows(i, by) ==
  /\ workers[<<i, by>>].at = "compiled"
  /\ workers' = [workers EXCEPT ![<<i, by>>].at = "catch"]
  /\ UNCHANGED <<analysisQueue, initialised, analyses, immediates, jobs, handlers, reply,
                 stepVars>>

\* The catch block: the update to failed.
UpdateFailed(i, by) ==
  /\ workers[<<i, by>>].at = "catch"
  /\ analyses' = findOneAndUpdateIn(analyses, i, [status |-> "failed"])
  /\ workers' = [workers EXCEPT ![<<i, by>>].at = "returned"]
  /\ UNCHANGED <<analysisQueue, initialised, immediates, jobs, handlers, reply, stepVars>>

\* The update to failed throws: analyzeCodePair rejects.  The queue runs a
\* failed job again while it has attempts left.
UpdateFailedThrows(i, by) ==
  /\ workers[<<i, by>>].at = "catch"
  /\ workers' = [workers EXCEPT ![<<i, by>>].at = "rejected"]
  /\ jobs' = IF by = "processor" /\ workers[<<i, by>>].runs < Bull.attempts
               THEN jobs \cup {i} ELSE jobs
  /\ UNCHANGED <<analysisQueue, initialised, analyses, immediates, handlers, reply,
                 stepVars>>

\* GET /analyze/:id, for an id that uuidv4 has handed out.
GetAnalysis(i) ==
  /\ handlers[i].at # "idle"
  /\ LET found == findOne(analyses, i)
     IN  reply' = IF found = Null
                    THEN [route |-> "GET", id |-> i, code |-> 404]
                    ELSE [route |-> "GET", id |-> i, code |-> 200]
  /\ UNCHANGED <<analysisQueue, initialised, analyses, immediates, jobs, handlers,
                 workers, stepVars>>

\* DELETE /analyze/:id, for an id that uuidv4 has handed out.
DeleteAnalysis(i) ==
  /\ handlers[i].at # "idle"
  /\ analyses' = findOneAndDelete(analyses, i)
  /\ reply' = [route |-> "DELETE", id |-> i,
               code |-> IF findOne(analyses, i) = Null THEN 404 ELSE 200]
  /\ UNCHANGED <<analysisQueue, initialised, immediates, jobs, handlers, workers,
                 stepVars>>


-----------------------------------------------------------------------------
(* AnalysisService.analyzeCodePair, a step at a time. *)

\* astToText.
astToText(ast) == ast[1].text

\* The lines of a text, as diffLines and createPatch take them.
linesOf(text) ==
  LET ends == {i \in DOMAIN text : text[i] = "\n"}
      startOf(e) == IF \E p \in ends : p < e THEN Max({p \in ends : p < e}) + 1 ELSE 1
      line(e) == [j \in 1..(e - startOf(e)) |-> text[startOf(e) + j - 1]]
      RECURSIVE from(_)
      from(rest) == IF rest = {} THEN <<>>
                    ELSE <<line(Min(rest))>> \o from(rest \ {Min(rest)})
  IN  from(ends)

\* The mapHints of the requests: the rename hinted, and two legacy names hinted
\* to one refactored name.
MapHints ==
  { (<<"c","o","m","p","u","t","e","T","o","t","a","l">> :> <<"c","a","l","c","u","l","a","t","e","T","o","t","a","l">>),
    (<<"c","o","m","p","u","t","e","T","o","t","a","l">> :> <<"c","a","l","c","u","l","a","t","e","T","o","t","a","l">>) @@ (<<"c","a","l","c","u","l","a","t","e","T","o","t","a","l">> :> <<"c","a","l","c","u","l","a","t","e","T","o","t","a","l">>) }

\* request.options: there may be none, and either field may be missing.
Options ==
       {<<>>}
  \cup {[mapHints |-> h] : h \in MapHints}
  \cup {[includeSecurityScan |-> b] : b \in BOOLEAN}

\* The languages of the requests: one that has a parser, and one that the
\* request schema accepts and that has none.
Languages == {"javascript", "csharp"}

\* The requests whose two sources have max lines at most.
RequestsOfLines(max) ==
  UNION { { [legacy |-> l, refactored |-> r, language |-> g, options |-> o] :
              l \in SourcesOfLength(n[1]), r \in SourcesOfLength(n[2]),
              g \in Languages, o \in Options } :
          n \in {n \in (0..max) \X (0..max) : n[1] + n[2] <= max} }

\* The requests: the lines of the two sources are MaxTotalLines at most.
Requests == RequestsOfLines(MaxTotalLines)

\* request.options?.mapHints || {}
mapHintsOf(req) ==
  IF "mapHints" \in DOMAIN req.options THEN req.options.mapHints ELSE <<>>

\* request.options?.includeSecurityScan === true: a missing option disables.
includeSecurityScanOfExplicit(req) ==
  IF "includeSecurityScan" \in DOMAIN req.options
    THEN req.options.includeSecurityScan = TRUE
    ELSE FALSE

\* The scan asked for only when the two sources differ.
includeSecurityScanIfChanged(req) ==
  /\ req.legacy # req.refactored
  /\ IF "includeSecurityScan" \in DOMAIN req.options
       THEN req.options.includeSecurityScan # FALSE
       ELSE TRUE

\* request.options?.includeSecurityScan !== false
includeSecurityScanOf(req) ==
  IF "includeSecurityScan" \in DOMAIN req.options
    THEN req.options.includeSecurityScan # FALSE
    ELSE TRUE

\* The update of a catch block that saves what had been computed so far.
failedUpdateWithResults(message) ==
  [ status |-> "failed", error |-> [message |-> message],
    results |-> [refactorTypes |-> refactorTypes, riskFlags |-> riskFlags] ]

\* The update of the catch block.
failedUpdate(message) ==
  [status |-> "failed", error |-> [message |-> message]]

\* The types of the library, as text.
typeTexts ==
  ("Extract Method" :> <<"E","x","t","r","a","c","t"," ","M","e","t","h","o","d">>) @@
  ("Inline Method" :> <<"I","n","l","i","n","e"," ","M","e","t","h","o","d">>) @@
  ("Rename Symbol" :> <<"R","e","n","a","m","e"," ","S","y","m","b","o","l">>) @@
  ("Move/Modularize" :> <<"M","o","v","e","/","M","o","d","u","l","a","r","i","z","e">>) @@
  ("Service Extraction" :> <<"S","e","r","v","i","c","e"," ","E","x","t","r","a","c","t","i","o","n">>) @@
  ("Layering" :> <<"L","a","y","e","r","i","n","g">>) @@
  ("Event-driven" :> <<"E","v","e","n","t","-","d","r","i","v","e","n">>) @@
  ("Cloud Migration" :> <<"C","l","o","u","d"," ","M","i","g","r","a","t","i","o","n">>) @@
  ("Error Handling" :> <<"E","r","r","o","r"," ","H","a","n","d","l","i","n","g">>) @@
  ("Logging/Observability" :> <<"L","o","g","g","i","n","g","/","O","b","s","e","r","v","a","b","i","l","i","t","y">>) @@
  ("Testing" :> <<"T","e","s","t","i","n","g">>) @@
  ("Containerization" :> <<"C","o","n","t","a","i","n","e","r","i","z","a","t","i","o","n">>) @@
  ("Infrastructure as Code" :> <<"I","n","f","r","a","s","t","r","u","c","t","u","r","e"," ","a","s"," ","C","o","d","e">>) @@
  ("Database Migration" :> <<"D","a","t","a","b","a","s","e"," ","M","i","g","r","a","t","i","o","n">>)

\* generateSummary: the text it returns.  Its sort is in place: the caller's
\* refactorTypes is sortByLevel(tags) afterwards.
generateSummary(tags) ==
  LET sorted == sortByLevel(tags)
      topRefactors == SubSeq(sorted, 1, Min({3, Len(sorted)}))
      levelDescriptions ==
        << <<"t","r","i","v","i","a","l">>, <<"m","i","n","o","r">>, <<"m","o","d","e","r","a","t","e">>, <<"s","i","g","n","i","f","i","c","a","n","t">>, <<"a","r","c","h","i","t","e","c","t","u","r","a","l">> >>
      lower(k) == toLowerCase(typeTexts[topRefactors[k].type])
  IN  IF Len(topRefactors) = 0 THEN <<"N","o"," ","s","i","g","n","i","f","i","c","a","n","t"," ","r","e","f","a","c","t","o","r","i","n","g"," ","d","e","t","e","c","t","e","d">>
      ELSE    <<"M","a","j","o","r"," ">>
           \o (IF topRefactors[1].level \in 0..4
                 THEN levelDescriptions[topRefactors[1].level + 1] ELSE <<"u","n","k","n","o","w","n">>)
           \o <<" ","c","h","a","n","g","e","s",":"," ">> \o lower(1)
           \o (IF Len(topRefactors) > 1
                 THEN <<","," ">> \o join([k \in 1..(Len(topRefactors) - 1) |-> lower(k + 1)], <<","," ">>)
                 ELSE <<>>)

\* The results compiled.  generateSummary has sorted refactorTypes in place.
compileResults(diffs, tags, metrics, flags) ==
  [ overallScore  |-> metrics.overallScore,
    level         |-> metrics.level,
    summary       |-> generateSummary(tags),
    refactorTypes |-> sortByLevel(tags),
    files         |-> diffs.files,
    riskFlags     |-> flags,
    metrics       |-> metrics.detailed ]

\* The update that completes the analysis.
completedUpdate(results) ==
  [status |-> "completed", results |-> results]

\* The variables of the first analysis.
firstVars ==
  <<pc, request, legacyAST, refactoredAST, mappings, astChanges, astDiffs,
    refactorTypes, impactMetrics, riskFlags, scoreArg, levelOut, analysis>>

\* POST /analyze has saved the document with status pending and has handed
\* the request to analyzeCodePair.
Init ==
  /\ InitService
  /\ pc = "pending"
  /\ request \in Requests
  /\ legacyAST = None
  /\ refactoredAST = None
  /\ mappings = None
  /\ astChanges = None
  /\ astDiffs = None
  /\ refactorTypes = None
  /\ impactMetrics = None
  /\ riskFlags = None
  /\ scoreArg = 0
  /\ levelOut = 0
  /\ analysis = [status |-> "pending"]
  /\ second = None

\* The status becomes processing; then step 1: parseCode of the legacy and of
\* the refactored source.  An error of parseCode is caught and recorded.
ParseCode ==
  /\ pc = "pending"
  /\ LET processing == findOneAndUpdate(analysis, [status |-> "processing"])
         legacy == parseCode(request.legacy, request.language)
         refactored == parseCode(request.refactored, request.language)
     IN  IF isThrown(legacy) \/ isThrown(refactored)
           THEN /\ analysis' =
                     findOneAndUpdate(processing,
                       failedUpdate(IF isThrown(legacy) THEN legacy[1].error
                                                        ELSE refactored[1].error))
                /\ pc' = "failed"
                /\ UNCHANGED <<legacyAST, refactoredAST>>
           ELSE /\ analysis' = processing
                /\ legacyAST' = legacy
                /\ refactoredAST' = refactored
                /\ pc' = "parsed"
  /\ UNCHANGED <<request, mappings, astChanges, astDiffs, refactorTypes, impactMetrics,
                 riskFlags, scoreArg, levelOut, second, serviceVars>>

\* Step 2: mapElements.
MapElements ==
  /\ pc = "parsed"
  /\ mappings' = mapElements(legacyAST, refactoredAST, mapHintsOf(request))
  /\ pc' = "mapped"
  /\ UNCHANGED <<request, legacyAST, refactoredAST, astChanges, astDiffs, refactorTypes,
                 impactMetrics, riskFlags, scoreArg, levelOut, analysis, second, serviceVars>>

\* Step 3: computeDiffs, and the astChanges it computes on its way.
ComputeDiffs ==
  /\ pc = "mapped"
  /\ astChanges' = computeASTChanges(legacyAST, refactoredAST, mappings)
  /\ astDiffs' = computeDiffs(linesOf(astToText(legacyAST)),
                              linesOf(astToText(refactoredAST)), astChanges')
  /\ pc' = "diffed"
  /\ UNCHANGED <<request, legacyAST, refactoredAST, mappings, refactorTypes,
                 impactMetrics, riskFlags, scoreArg, levelOut, analysis, second, serviceVars>>

\* Step 4: classify.  (Step 4.5 finds no file with content and calls nothing.)
Classify ==
  /\ pc = "diffed"
  /\ refactorTypes' = classify(astDiffs, request.language)
  /\ pc' = "classified"
  /\ UNCHANGED <<request, legacyAST, refactoredAST, mappings, astChanges, astDiffs,
                 impactMetrics, riskFlags, scoreArg, levelOut, analysis, second, serviceVars>>

\* Step 5: calculate.
Calculate ==
  /\ pc = "classified"
  /\ impactMetrics' = calculate(astDiffs, refactorTypes, request.language)
  /\ pc' = "scored"
  /\ UNCHANGED <<request, legacyAST, refactoredAST, mappings, astChanges, astDiffs,
                 refactorTypes, riskFlags, scoreArg, levelOut, analysis, second, serviceVars>>

\* Step 6: scan of request.refactored.
Scan ==
  /\ pc = "scored"
  /\ riskFlags' = scan(request.refactored, request.language,
                       includeSecurityScanOf(request))
  /\ pc' = "scanned"
  /\ UNCHANGED <<request, legacyAST, refactoredAST, mappings, astChanges, astDiffs,
                 refactorTypes, impactMetrics, scoreArg, levelOut, analysis, second, serviceVars>>

\* The results are compiled and written with the status completed, in one
\* update.
Complete ==
  /\ pc = "scanned"
  /\ analysis' =
       findOneAndUpdate(analysis,
         completedUpdate(compileResults(astDiffs, refactorTypes, impactMetrics,
                                        riskFlags)))
  /\ pc' = "completed"
  /\ UNCHANGED <<request, legacyAST, refactoredAST, mappings, astChanges, astDiffs,
                 refactorTypes, impactMetrics, riskFlags, scoreArg, levelOut, second, serviceVars>>

\* A step of the try block throws: the catch block records the failure.  What the steps before it
\* had computed stays in the locals of the call and goes nowhere.
StageThrows ==
  /\ pc \in {"pending", "parsed", "mapped", "diffed", "classified", "scored", "scanned"}
  /\ analysis' = findOneAndUpdate(analysis, failedUpdate(<<"stage error">>))
  /\ pc' = "failed"
  /\ UNCHANGED <<request, legacyAST, refactoredAST, mappings, astChanges, astDiffs,
                 refactorTypes, impactMetrics, riskFlags, scoreArg, levelOut, second, serviceVars>>

Next ==
  \/ ParseCode
  \/ MapElements
  \/ ComputeDiffs
  \/ Classify
  \/ Calculate
  \/ Scan
  \/ Complete
  \/ StageThrows

Spec == Init /\ [][Next]_vars

-----------------------------------------------------------------------------
(* The scorer on its own: calculate on the diff counts and the tags of any  *)
(* caller, and determineLevel on every score.                               *)

\* The tags of a caller, at most.
MaxTags == 4

\* Lines and nodes changed: none, a few, the middle of each curve, and many.
LinesChanged == {0, 1, 200, 400, 1000}

NodesChanged == {0, 50, 150}

\* The types of the tags: a test tag, an infrastructure tag, one that is
\* complex as well, and a simplifying one.
TagKeys == {"testing", "containerization", "serviceExtraction", "extractMethod"}

\* A tag as classify makes it from an entry of the library.
tagOf(key) ==
  LET entry == patterns[CHOOSE k \in DOMAIN patterns : patterns[k].key = key]
  IN  [ type |-> entry.type, level |-> entry.level, evidence |-> <<>>,
        confidence |-> Frac(8, 10) ]

RECURSIVE TagsOfLength(_)
TagsOfLength(n) ==
  IF n = 0 THEN {<<>>}
  ELSE {Append(tags, tagOf(key)) : tags \in TagsOfLength(n - 1), key \in TagKeys}

TagLists == UNION {TagsOfLength(n) : n \in 0..MaxTags}

\* astDiffs with the counts of computeDiffs.
DiffCounts ==
  { [ overall |-> [ nodesAdded |-> nodes, nodesRemoved |-> 0, nodesModified |-> 0,
                    linesAdded |-> lines, linesRemoved |-> 0 ] ] :
      nodes \in NodesChanged, lines \in LinesChanged }

InitScore ==
  /\ InitService
  /\ request = None
  /\ legacyAST = None
  /\ refactoredAST = None
  /\ mappings = None
  /\ astChanges = None
  /\ impactMetrics = None
  /\ riskFlags = None
  /\ levelOut = 0
  /\ analysis = None
  /\ second = None
  /\ \/ /\ pc = "calculate"
        /\ astDiffs \in DiffCounts
        /\ refactorTypes \in TagLists
        /\ scoreArg = 0
     \/ /\ pc = "determineLevel"
        /\ astDiffs = None
        /\ refactorTypes = None
        /\ scoreArg \in 0..100

\* The languages of the calls of calculate: two that adjustForLanguage lists,
\* and one that it does not.
ScoreLanguages == {"javascript", "java", "cobol"}

\* A call of calculate, for a language.
CallCalculate ==
  /\ pc = "calculate"
  /\ \E language \in ScoreLanguages :
       /\ request' = [language |-> language]
       /\ impactMetrics' = calculate(astDiffs, refactorTypes, language)
  /\ pc' = "calculated"
  /\ UNCHANGED <<legacyAST, refactoredAST, mappings, astChanges, astDiffs,
                 refactorTypes, riskFlags, scoreArg, levelOut, analysis, second, serviceVars>>

\* A call of determineLevel.
CallDetermineLevel ==
  /\ pc = "determineLevel"
  /\ levelOut' = determineLevel(scoreArg)
  /\ pc' = "levelDetermined"
  /\ UNCHANGED <<request, legacyAST, refactoredAST, mappings, astChanges, astDiffs,
                 refactorTypes, impactMetrics, riskFlags, scoreArg, analysis, second, serviceVars>>

NextScore ==
  \/ CallCalculate
  \/ CallDetermineLevel

SpecScore == InitScore /\ [][NextScore]_vars

-----------------------------------------------------------------------------
(* Two analyses on the one AnalysisService: analyzeCodePair is async, and   *)
(* the steps of two calls interleave at every await.                        *)

\* The lines of the two sources of an analysis that runs beside another.
MaxPairLines == 1

\* The request of the other analysis: the same request; the same with the
\* refactored source for its legacy source; the same with no options.
Variants(req) ==
  {req, [req EXCEPT !.legacy = req.refactored], [req EXCEPT !.options = <<>>]}

InitTwo ==
  /\ InitService
  /\ pc = "pending"
  /\ request \in RequestsOfLines(MaxPairLines)
  /\ legacyAST = None
  /\ refactoredAST = None
  /\ mappings = None
  /\ astChanges = None
  /\ astDiffs = None
  /\ refactorTypes = None
  /\ impactMetrics = None
  /\ riskFlags = None
  /\ scoreArg = 0
  /\ levelOut = 0
  /\ analysis = [status |-> "pending"]
  /\ \E other \in Variants(request) :
       second = [ pc |-> "pending", request |-> other, legacyAST |-> None,
                  refactoredAST |-> None, mappings |-> None, astDiffs |-> None,
                  refactorTypes |-> None, impactMetrics |-> None,
                  riskFlags |-> None ]

\* Step 1 of the second analysis.
SecondParseCode ==
  /\ second # None
  /\ second.pc = "pending"
  /\ LET legacy == parseCode(second.request.legacy, second.request.language)
         refactored == parseCode(second.request.refactored, second.request.language)
     IN  second' = IF isThrown(legacy) \/ isThrown(refactored)
                     THEN [second EXCEPT !.pc = "failed"]
                     ELSE [second EXCEPT !.pc = "parsed", !.legacyAST = legacy,
                                         !.refactoredAST = refactored]
  /\ UNCHANGED <<firstVars, serviceVars>>

\* Step 2 of the second analysis.
SecondMapElements ==
  /\ second # None
  /\ second.pc = "parsed"
  /\ second' = [second EXCEPT
                  !.pc = "mapped",
                  !.mappings = mapElements(second.legacyAST, second.refactoredAST,
                                           mapHintsOf(second.request))]
  /\ UNCHANGED <<firstVars, serviceVars>>

\* Step 3 of the second analysis.
SecondComputeDiffs ==
  /\ second # None
  /\ second.pc = "mapped"
  /\ second' = [second EXCEPT
                  !.pc = "diffed",
                  !.astDiffs =
                     computeDiffs(linesOf(astToText(second.legacyAST)),
                                  linesOf(astToText(second.refactoredAST)),
                                  computeASTChanges(second.legacyAST,
                                                    second.refactoredAST,
                                                    second.mappings))]
  /\ UNCHANGED <<firstVars, serviceVars>>

\* Step 4 of the second analysis.
SecondClassify ==
  /\ second # None
  /\ second.pc = "diffed"
  /\ second' = [second EXCEPT
                  !.pc = "classified",
                  !.refactorTypes = classify(second.astDiffs, second.request.language)]
  /\ UNCHANGED <<firstVars, serviceVars>>

\* Step 5 of the second analysis.
SecondCalculate ==
  /\ second # None
  /\ second.pc = "classified"
  /\ second' = [second EXCEPT
                  !.pc = "scored",
                  !.impactMetrics = calculate(second.astDiffs, second.refactorTypes,
                                              second.request.language)]
  /\ UNCHANGED <<firstVars, serviceVars>>

\* Step 6 of the second analysis.
SecondScan ==
  /\ second # None
  /\ second.pc = "scored"
  /\ second' = [second EXCEPT
                  !.pc = "scanned",
                  !.riskFlags = scan(second.request.refactored,
                                     second.request.language,
                                     includeSecurityScanOf(second.request))]
  /\ UNCHANGED <<firstVars, serviceVars>>

NextTwo ==
  \/ ParseCode
  \/ MapElements
  \/ ComputeDiffs
  \/ Classify
  \/ Calculate
  \/ Scan
  \/ Complete
  \/ SecondParseCode
  \/ SecondMapElements
  \/ SecondComputeDiffs
  \/ SecondClassify
  \/ SecondCalculate
  \/ SecondScan

SpecTwo == InitTwo /\ [][NextTwo]_vars

-----------------------------------------------------------------------------
(* The classifier on its own: classify on the diffs of any caller, with     *)
(* node collections in overall and a patch in the file.                     *)

\* The nodes of a collection, at most.
MaxCollection == 2

\* The statement nodes, as normalizeAST makes them.
StatementNodes == {normalizeAST(<<s>>, "javascript")[2] : s \in DOMAIN Statements}

RECURSIVE NodesOfLength(_)
NodesOfLength(n) ==
  IF n = 0 THEN {<<>>}
  ELSE {Append(nodes, node) : nodes \in NodesOfLength(n - 1), node \in StatementNodes}

\* The patches: none; a line that holds a rule text which the library lists
\* twice; two lines that hold texts of two entries.
PatchTexts ==
  { <<>>,
    << <<"+","c","l","a","s","s"," ","O","r","d","e","r","R","e","p","o","s","i","t","o","r","y"," ","{","}">> >>,
    << <<"+","i","m","p","o","r","t"," ","e","x","p","r","e","s","s"," ","f","r","o","m"," ","'","e","x","p","r","e","s","s","'",";">>, <<"+","@","C","o","n","t","r","o","l","l","e","r">> >> }

\* astDiffs with node collections.
ClassifyInputs ==
  { [ overall |-> [ addedNodes |-> added, removedNodes |-> removed ],
      files   |-> << [ filePath |-> "main",
                       changes  |-> [ textDiff |-> patch, astDiffSummary |-> <<>> ] ] >> ] :
      added \in UNION {NodesOfLength(n) : n \in 0..MaxCollection},
      removed \in NodesOfLength(0) \cup NodesOfLength(1),
      patch \in PatchTexts }

InitClassify ==
  /\ InitService
  /\ pc = "classify"
  /\ astDiffs \in ClassifyInputs
  /\ request = None
  /\ legacyAST = None
  /\ refactoredAST = None
  /\ mappings = None
  /\ astChanges = None
  /\ refactorTypes = None
  /\ impactMetrics = None
  /\ riskFlags = None
  /\ scoreArg = 0
  /\ levelOut = 0
  /\ analysis = None
  /\ second = None

\* A call of classify.
CallClassify ==
  /\ pc = "classify"
  /\ refactorTypes' = classify(astDiffs, "javascript")
  /\ pc' = "classifyReturned"
  /\ UNCHANGED <<request, legacyAST, refactoredAST, mappings, astChanges, astDiffs,
                 impactMetrics, riskFlags, scoreArg, levelOut, analysis, second, serviceVars>>

\* A call of generateSummary on the list classify returned: the list is sorted
\* in place, and the summary is kept in the record.
CallGenerateSummary ==
  /\ pc = "classifyReturned"
  /\ analysis' = [summary |-> generateSummary(refactorTypes)]
  /\ refactorTypes' = sortByLevel(refactorTypes)
  /\ pc' = "generateSummaryReturned"
  /\ UNCHANGED <<request, legacyAST, refactoredAST, mappings, astChanges, astDiffs,
                 impactMetrics, riskFlags, scoreArg, levelOut, second, serviceVars>>

SpecClassify == InitClassify /\ [][CallClassify \/ CallGenerateSummary]_vars

-----------------------------------------------------------------------------
(* The element mapper on its own: mapElements on the trees of any caller.   *)

\* The named nodes of the two trees of a call, at most.
MaxMapNodes == 3

\* A named node, as normalizeAST makes it.
namedNode(type, name, parameters, text) ==
  [ type |-> type, text |-> text, language |-> "javascript",
    metadata |-> [name |-> name, parameters |-> parameters, imports |-> <<>>] ]

\* The named nodes of the trees: a function; one that differs from it by its
\* name; one by its kind (a named function expression); one by its
\* parameters; and two functions with short names three letters apart.
MatchNodes ==
  { namedNode("function_declaration", <<"c","o","m","p","u","t","e","T","o","t","a","l">>, << <<"i","t","e","m","s">> >>,
              <<"f","u","n","c","t","i","o","n"," ","c","o","m","p","u","t","e","T","o","t","a","l","(","i","t","e","m","s",")","{","r","e","t","u","r","n"," ","s","u","m","(","i","t","e","m","s",")",";","}">>),
    namedNode("function_declaration", <<"c","a","l","c","u","l","a","t","e","T","o","t","a","l">>, << <<"i","t","e","m","s">> >>,
              <<"f","u","n","c","t","i","o","n"," ","c","a","l","c","u","l","a","t","e","T","o","t","a","l","(","i","t","e","m","s",")","{","r","e","t","u","r","n"," ","s","u","m","(","i","t","e","m","s",")",";","}">>),
    namedNode("function", <<"c","o","m","p","u","t","e","T","o","t","a","l">>, << <<"i","t","e","m","s">> >>,
              <<"f","u","n","c","t","i","o","n"," ","c","o","m","p","u","t","e","T","o","t","a","l","(","i","t","e","m","s",")","{","r","e","t","u","r","n"," ","s","u","m","(","i","t","e","m","s",")",";","}">>),
    namedNode("function_declaration", <<"c","o","m","p","u","t","e","T","o","t","a","l">>, << <<"i","t","e","m","s">>, <<"r","a","t","e">> >>,
              <<"f","u","n","c","t","i","o","n"," ","c","o","m","p","u","t","e","T","o","t","a","l","(","i","t","e","m","s",","," ","r","a","t","e",")","{","r","e","t","u","r","n"," ","s","u","m","(","i","t","e","m","s",")",";","}">>),
    namedNode("function_declaration", <<"p","a","r","s","e">>, << <<"i","t","e","m","s">> >>,
              <<"f","u","n","c","t","i","o","n"," ","p","a","r","s","e","(","i","t","e","m","s",")","{","r","e","t","u","r","n"," ","s","u","m","(","i","t","e","m","s",")",";","}">>),
    namedNode("function_declaration", <<"p","a","i","n","t">>, << <<"i","t","e","m","s">> >>,
              <<"f","u","n","c","t","i","o","n"," ","p","a","i","n","t","(","i","t","e","m","s",")","{","r","e","t","u","r","n"," ","s","u","m","(","i","t","e","m","s",")",";","}">>) }

\* The trees with n named nodes below the program node, depth first.
RECURSIVE TreesOfLength(_)
TreesOfLength(n) ==
  IF n = 0
    THEN { << [ type |-> "program", text |-> <<>>, language |-> "javascript",
                metadata |-> [name |-> NoName, parameters |-> <<>>, imports |-> <<>>] ] >> }
    ELSE { [ Append(tree, node) EXCEPT ![1].text = @ \o node.text \o <<"\n">> ] :
             tree \in TreesOfLength(n - 1), node \in MatchNodes }

\* The two trees of a call.
MapInputs ==
  UNION { TreesOfLength(n[1]) \X TreesOfLength(n[2]) :
          n \in {n \in (0..MaxMapNodes) \X (0..MaxMapNodes) : n[1] + n[2] <= MaxMapNodes} }

InitMap ==
  /\ InitService
  /\ pc = "mapElements"
  /\ \E trees \in MapInputs :
       /\ legacyAST = trees[1]
       /\ refactoredAST = trees[2]
  /\ request = [options |-> <<>>]
  /\ mappings = None
  /\ astChanges = None
  /\ astDiffs = None
  /\ refactorTypes = None
  /\ impactMetrics = None
  /\ riskFlags = None
  /\ scoreArg = 0
  /\ levelOut = 0
  /\ analysis = None
  /\ second = None

\* A call of mapElements.
CallMapElements ==
  /\ pc = "mapElements"
  /\ mappings' = mapElements(legacyAST, refactoredAST, mapHintsOf(request))
  /\ pc' = "mapElementsReturned"
  /\ UNCHANGED <<request, legacyAST, refactoredAST, astChanges, astDiffs, refactorTypes,
                 impactMetrics, riskFlags, scoreArg, levelOut, analysis, second, serviceVars>>

\* A call of computeASTChanges on the two trees and the Map mapElements returned.
CallComputeASTChanges ==
  /\ pc = "mapElementsReturned"
  /\ astChanges' = computeASTChanges(legacyAST, refactoredAST, mappings)
  /\ pc' = "computeASTChangesReturned"
  /\ UNCHANGED <<request, legacyAST, refactoredAST, mappings, astDiffs, refactorTypes,
                 impactMetrics, riskFlags, scoreArg, levelOut, analysis, second, serviceVars>>

SpecMap == InitMap /\ [][CallMapElements \/ CallComputeASTChanges]_vars
-----------------------------------------------------------------------------
(* The service: requests to the routes of /analyze, the start of the queue
   and the analyses they set off. *)

InitRoutes ==
  /\ InitService
  /\ pc = "service"
  /\ request = None
  /\ legacyAST = None
  /\ refactoredAST = None
  /\ mappings = None
  /\ astChanges = None
  /\ astDiffs = None
  /\ refactorTypes = None
  /\ impactMetrics = None
  /\ riskFlags = None
  /\ scoreArg = 0
  /\ levelOut = 0
  /\ analysis = None
  /\ second = None

\* The steps in which an update of the status throws.
StatusUpdateThrows ==
  \E i \in AnalysisIds, by \in Executors :
    \/ UpdateProcessingThrows(i, by)
    \/ UpdateCompletedThrows(i, by)
    \/ UpdateFailedThrows(i, by)

\* The steps of the handler of POST /analyze after the request has arrived.
Handle(i) ==
  \/ PostEnqueue(i)
  \/ PostRespond(i)

\* The steps of the job of an analysis: its start by the event loop or the
\* queue, and the steps of analyzeCodePair with every update succeeding.
Job(i) ==
  \/ RunImmediate(i)
  \/ ProcessJob(i)
  \/ \E by \in Executors :
       \/ UpdateProcessing(i, by)
       \/ UpdateCompleted(i, by)
       \/ UpdateFailed(i, by)

\* What the clients and the environment do.
Arrive(i) ==
  \/ PostAnalyze(i)
  \/ PostSaveThrows(i)
  \/ PostEnqueueThrows(i)
  \/ GetAnalysis(i)
  \/ DeleteAnalysis(i)

NextServiceFair ==
  \/ InitQueue
  \/ \E i \in AnalysisIds : Arrive(i)
  \/ \E i \in AnalysisIds : Handle(i)
  \/ \E i \in AnalysisIds : Job(i)

NextService ==
  \/ NextServiceFair
  \/ StatusUpdateThrows

SpecService == InitRoutes /\ [][NextService]_vars

\* The event loop and the queue run what is ready, and no update of the
\* status throws.
SpecServiceFair ==
  /\ InitRoutes
  /\ [][NextServiceFair]_vars
  /\ \A i \in AnalysisIds : WF_vars(Handle(i)) /\ WF_vars(Job(i))


-----------------------------------------------------------------------------
(* The properties. *)

\* The texts of the lines of a source.
lineTexts(src) == {Statements[src[i]].text : i \in DOMAIN src}

\* The statements of the refactored source that the legacy source has not.
introduced(req) ==
  {s \in Range(req.refactored) : Statements[s].text \notin lineTexts(req.legacy)}

\* A text holds one of the words, whatever the case.
holdsWord(text, words) == \E w \in words : includes(toLowerCase(text), w)

\* The refactored source holds a word that the legacy source does not.
introducesWord(req, w) ==
  /\ \E s \in Range(req.refactored) : holdsWord(Statements[s].text, {w})
  /\ ~(\E s \in Range(req.legacy) : holdsWord(Statements[s].text, {w}))

\* The legacy nodes mapped to a node of the same kind and parameters and
\* another name.
renamed ==
  {l \in DOMAIN mappings :
     /\ legacyAST[l].metadata.name # refactoredAST[mappings[l]].metadata.name
     /\ legacyAST[l].type = refactoredAST[mappings[l]].type
     /\ legacyAST[l].metadata.parameters = refactoredAST[mappings[l]].metadata.parameters}

\* The option that disables the scan is there, and false.
scanDisabled(req) ==
  "includeSecurityScan" \in DOMAIN req.options /\ req.options.includeSecurityScan = FALSE

\* C1: after mapElements no two legacy nodes are mapped to the same
\* refactored node: the mapping is injective.
C1_MappingInjective ==
  pc \notin {"pending", "parsed"} =>
    \A l1 \in DOMAIN mappings : \A l2 \in DOMAIN mappings :
      mappings[l1] = mappings[l2] => l1 = l2

\* C2: when the legacy and the refactored text are identical and there are
\* no hints, the analysis finds no node added, removed or modified, and the
\* overall score and the level are both 0.
C2_IdenticalTextsScoreZero ==
  ( /\ pc = "completed"
    /\ request.legacy = request.refactored
    /\ "mapHints" \notin DOMAIN request.options ) =>
    /\ astChanges.added = <<>>
    /\ astChanges.removed = <<>>
    /\ astChanges.modified = <<>>
    /\ impactMetrics.overallScore = 0
    /\ impactMetrics.level = 0

\* C3: when a named legacy node is mapped to a node that differs from it by
\* its name only (computeTotal to calculateTotal, same kind and parameters),
\* the pair is among the modified nodes with a change that speaks of the name
\* or the identifier, and the tags hold Rename Symbol at level 1.
C3_RenameIsTagged ==
  pc = "completed" =>
    \A l \in renamed :
      /\ \E k \in DOMAIN astChanges.modified :
           /\ astChanges.modified[k].legacy = l
           /\ astChanges.modified[k].refactored = mappings[l]
           /\ \E c \in DOMAIN astChanges.modified[k].changes :
                holdsWord(astChanges.modified[k].changes[c], {<<"n","a","m","e">>, <<"i","d","e","n","t","i","f","i","e","r">>})
      /\ \E t \in DOMAIN refactorTypes :
           refactorTypes[t].type = "Rename Symbol" /\ refactorTypes[t].level = 1

\* C4: when the refactored text holds the word express or controller and the
\* legacy text does not, the tags hold Service Extraction at level 4 and the
\* count of new infrastructure components is above 0.
C4_ServiceKeywordTagged ==
  (\E w \in {<<"e","x","p","r","e","s","s">>, <<"c","o","n","t","r","o","l","l","e","r">>} : introducesWord(request, w)) =>
    /\ pc \in {"classified", "scored", "scanned", "completed"} =>
         \E t \in DOMAIN refactorTypes :
           refactorTypes[t].type = "Service Extraction" /\ refactorTypes[t].level = 4
    /\ pc \in {"scored", "scanned", "completed"} =>
         impactMetrics.detailed.newInfrastructureComponents > 0

C4_Witness ==
  /\ pc = "scored"
  /\ introducesWord(request, <<"e","x","p","r","e","s","s">>)
  /\ \E t \in DOMAIN refactorTypes : refactorTypes[t].type = "Service Extraction"
  /\ impactMetrics.detailed.newInfrastructureComponents = 1

\* C5: when the refactored text introduces an import statement the legacy
\* text has not, the tags hold Move/Modularize.
C5_NewImportTagged ==
  (pc = "completed" /\ \E s \in introduced(request) : Statements[s].type = "import_statement") =>
    \E t \in DOMAIN refactorTypes : refactorTypes[t].type = "Move/Modularize"

\* C6: determineLevel is the step function of the score on 0..100: 0 up to
\* 19, 1 up to 39, 2 up to 59, 3 up to 79, 4 from 80; and the level calculate
\* returns is determineLevel of the score it returns.
C6_LevelIsStepOfScore ==
  /\ pc = "levelDetermined" =>
       levelOut = (IF scoreArg <= 19 THEN 0 ELSE IF scoreArg <= 39 THEN 1
                   ELSE IF scoreArg <= 59 THEN 2 ELSE IF scoreArg <= 79 THEN 3 ELSE 4)
  /\ pc = "calculated" =>
       impactMetrics.level =
         (IF impactMetrics.overallScore <= 19 THEN 0
          ELSE IF impactMetrics.overallScore <= 39 THEN 1
          ELSE IF impactMetrics.overallScore <= 59 THEN 2
          ELSE IF impactMetrics.overallScore <= 79 THEN 3 ELSE 4)

C6_Witness == pc = "levelDetermined" /\ scoreArg = 80 /\ levelOut = 4

\* C7: whatever the counts and the tags, the overall score calculate returns
\* is an integer from 0 to 100 and the level is one of 0, 1, 2, 3, 4.
C7_ScoreAndLevelInRange ==
  pc = "calculated" =>
    /\ impactMetrics.overallScore \in 0..100
    /\ impactMetrics.level \in 0..4

C7_Witness ==
  /\ pc = "calculated"
  /\ Len(refactorTypes) = MaxTags
  /\ impactMetrics.overallScore >= 80
  /\ impactMetrics.level = 4

C9_FlagsAreDistinct ==
  \A f \in DOMAIN riskFlags : \A g \in DOMAIN riskFlags :
    ( /\ riskFlags[f].type = riskFlags[g].type
      /\ riskFlags[f].severity = riskFlags[g].severity
      /\ riskFlags[f].description = riskFlags[g].description ) => f = g

\* The scanners found the same flag twice and scan returned it once.
C9_Witness ==
  /\ pc = "scanned"
  /\ riskFlags # <<>>
  /\ Len(scannedFlags[request.refactored]) > Len(riskFlags)

\* C10: when options.includeSecurityScan is false scan returns no flag; when
\* the option is missing or true it returns the flags of the enabled scan.
C10_OnlyFalseDisablesScan ==
  pc \in {"scanned", "completed"} =>
    /\ scanDisabled(request) => riskFlags = <<>>
    /\ ~scanDisabled(request) =>
         riskFlags = scan(request.refactored, request.language, TRUE)

C10_Witness ==
  /\ pc = "scanned"
  /\ scanDisabled(request)
  /\ scannedFlags[request.refactored] # <<>>
  /\ riskFlags = <<>>

\* The types of a list of tags.
tagSet(tags) == {tags[i].type : i \in DOMAIN tags}

\* Both analyses have the same request and have been scored.
twinsScored ==
  /\ second.request = request
  /\ pc \in {"scored", "scanned", "completed"}
  /\ second.pc \in {"scored", "scanned"}

unparsed == {"csharp", "cobol", "pli"}

sameScan ==
  /\ pc \in {"scanned", "completed"}
  /\ second.pc = "scanned"
  /\ second.request.refactored = request.refactored
  /\ scanDisabled(second.request) = scanDisabled(request)

\* C14: two scans of the same refactored source with the same
\* includeSecurityScan return the same flags, whatever the legacy source, the
\* hints and the results of the map, diff, classify and score steps of the
\* two analyses; and scan returns the same flags for every language.
C14_FlagsOfRefactoredSourceOnly ==
  /\ sameScan => riskFlags = second.riskFlags
  /\ \A g \in parsers : \A b \in BOOLEAN :
       scan(request.refactored, g, b) = scan(request.refactored, "javascript", b)

\* Two analyses with flags, of which the legacy sources, the diffs and the
\* scores differ.
C14_Witness ==
  /\ sameScan
  /\ riskFlags # <<>>
  /\ second.request.legacy # request.legacy
  /\ second.astDiffs # astDiffs
  /\ second.impactMetrics.overallScore # impactMetrics.overallScore

\* The detections classify collects before it merges them.
rawDetections(diffs) ==
     detectIn(diffs, "addedNodes", "added")
  \o detectIn(diffs, "removedNodes", "removed")
  \o detectIn(diffs, "modifiedNodes", "modified")
  \o flatten([f \in DOMAIN diffs.files |-> analyzeFileChanges(diffs.files[f])])

\* The detections of a type.
ofType(raw, type) == {k \in DOMAIN raw : raw[k].type = type}

\* C15: in the list classify returns no two tags have the same type; the
\* level of a tag is the greatest level of the detections of its type, and
\* its evidence is the evidence of those detections, each string once.
C15_TagsMergedByType ==
  pc = "classifyReturned" =>
    LET raw == rawDetections(astDiffs)
    IN  /\ \A i \in DOMAIN refactorTypes : \A j \in DOMAIN refactorTypes :
             refactorTypes[i].type = refactorTypes[j].type => i = j
        /\ tagSet(refactorTypes) = tagSet(raw)
        /\ \A i \in DOMAIN refactorTypes :
             LET tag == refactorTypes[i]
                 same == ofType(raw, tag.type)
             IN  /\ tag.level = Max({raw[k].level : k \in same})
                 /\ Range(tag.evidence) = UNION {Range(raw[k].evidence) : k \in same}
                 /\ \A a \in DOMAIN tag.evidence : \A b \in DOMAIN tag.evidence :
                      tag.evidence[a] = tag.evidence[b] => a = b

\* A type is detected three times and more, twice with the same evidence,
\* and another type is detected as well.
C15_Witness ==
  /\ pc = "classifyReturned"
  /\ LET raw == rawDetections(astDiffs)
     IN  /\ \E t \in tagSet(raw) :
              /\ Cardinality(ofType(raw, t)) >= 3
              /\ \E a \in ofType(raw, t) : \E b \in ofType(raw, t) :
                   a # b /\ raw[a].evidence = raw[b].evidence
              /\ \E a \in ofType(raw, t) : \E b \in ofType(raw, t) :
                   raw[a].evidence # raw[b].evidence
         /\ Cardinality(tagSet(raw)) >= 2

FracEqual(a, b) == a.num * b.den = b.num * a.den

\* 0.5 * nameSimilarity + 0.3 * typeSimilarity + 0.2 * parameterSimilarity,
\* with nameSimilarity 1 for identical names.
weightedSimilarity(node1, node2) ==
  LET name1 == node1.metadata.name
      name2 == node2.metadata.name
      maxLength == Max({Len(name1), Len(name2)})
      nameSimilarity ==
        IF name1 = name2 THEN Frac(1, 1)
        ELSE Frac(maxLength - levenshteinDistance(name1, name2), maxLength)
      typeSimilarity == IF node1.type = node2.type THEN Frac(1, 1) ELSE Frac(1, 2)
      parameterSimilarity ==
        calculateArraySimilarity(node1.metadata.parameters, node2.metadata.parameters)
  IN  FracAdd(FracAdd(FracMul(Frac(5, 10), nameSimilarity),
                      FracMul(Frac(3, 10), typeSimilarity)),
              FracMul(Frac(2, 10), parameterSimilarity))

\* C16: for every legacy node and every refactored node calculateSimilarity
\* is the weighted sum 0.5 * name + 0.3 * type + 0.2 * parameters; two nodes
\* of one name and of two kinds, or of two parameter lists, are less than 1.0
\* similar.
C16_SimilarityIsWeightedSum ==
  pc = "mapElementsReturned" =>
    \A l \in DOMAIN legacyAST : \A r \in DOMAIN refactoredAST :
      LET node1 == legacyAST[l]
          node2 == refactoredAST[r]
      IN  /\ FracEqual(calculateSimilarity(node1, node2), weightedSimilarity(node1, node2))
          /\ ( /\ node1.metadata.name = node2.metadata.name
               /\ \/ node1.type # node2.type
                  \/ node1.metadata.parameters # node2.metadata.parameters )
             => FracGreater(Frac(1, 1), calculateSimilarity(node1, node2))

\* calculateSimilarity of the named nodes of the trees, computed once.
similarities ==
  [pair \in MatchNodes \X MatchNodes |-> calculateSimilarity(pair[1], pair[2])]

\* The similarity of legacy node l and refactored node r.
similarity(l, r) == similarities[<<legacyAST[l], refactoredAST[r]>>]

\* The named refactored nodes that no other is more similar to legacy node l,
\* as places in the depth-first collection.
greatest(l) ==
  LET candidates == collectNamedNodes(refactoredAST)
  IN  {k \in DOMAIN candidates :
         \A m \in DOMAIN candidates :
           ~FracGreater(similarity(l, candidates[m]), similarity(l, candidates[k]))}

\* The named legacy nodes that no hint has paired.
unhinted ==
  Range(collectNamedNodes(legacyAST))
    \ DOMAIN hintMappings(legacyAST, refactoredAST, mapHintsOf(request))

\* C17: a named legacy node that no hint has paired is mapped to the first,
\* in depth-first order, of the named refactored nodes most similar to it,
\* when that similarity is greater than 0.7, and is left unmapped when it is
\* not.
C17_FirstBestAboveThreshold ==
  pc = "mapElementsReturned" =>
    LET candidates == collectNamedNodes(refactoredAST)
    IN  \A l \in unhinted :
          IF /\ candidates # <<>>
             /\ FracGreater(similarity(l, candidates[Min(greatest(l))]), Frac(7, 10))
            THEN l \in DOMAIN mappings /\ mappings[l] = candidates[Min(greatest(l))]
            ELSE l \notin DOMAIN mappings

\* Two refactored nodes are the most similar to a legacy node, with a
\* similarity below 1.0, and the first of them is its pair.
C17_Witness ==
  /\ pc = "mapElementsReturned"
  /\ \E l \in unhinted :
       /\ Cardinality(greatest(l)) >= 2
       /\ l \in DOMAIN mappings
       /\ mappings[l] = collectNamedNodes(refactoredAST)[Min(greatest(l))]
       /\ FracGreater(Frac(1, 1), similarity(l, mappings[l]))

\* mapElements has returned in the analysis under way.
mapped == pc \in {"mapped", "diffed", "classified", "scored", "scanned", "completed"}

\* The hints without the one for a legacy name.
without(mapHints, name) == [n \in DOMAIN mapHints \ {name} |-> mapHints[n]]

\* C18: a hint whose two names are found pairs the legacy node of the first
\* name with the refactored node of the second, and that is the pair of the
\* final mapping, whatever automatic matching would choose; a hint of which
\* a name is in neither tree changes nothing: the mapping is what it is
\* without the hint, and mapElements returns.
C18_HintsTakePrecedence ==
  mapped =>
    \A name \in DOMAIN mapHintsOf(request) :
      LET l == findNodeByName(legacyAST, name)
          r == findNodeByName(refactoredAST, mapHintsOf(request)[name])
      IN  IF l # NoNode /\ r # NoNode
            THEN l \in DOMAIN mappings /\ mappings[l] = r
            ELSE mappings = mapElements(legacyAST, refactoredAST,
                                        without(mapHintsOf(request), name))

\* A hint pairs computeTotal with calculateTotal where automatic matching
\* would pair it with the refactored computeTotal, and another hint names a
\* function that the legacy tree has not.
C18_Witness ==
  /\ mapped
  /\ DOMAIN mapHintsOf(request) = { <<"c","o","m","p","u","t","e","T","o","t","a","l">>, <<"c","a","l","c","u","l","a","t","e","T","o","t","a","l">> }
  /\ findNodeByName(legacyAST, <<"c","a","l","c","u","l","a","t","e","T","o","t","a","l">>) = NoNode
  /\ LET l == findNodeByName(legacyAST, <<"c","o","m","p","u","t","e","T","o","t","a","l">>)
         r == findNodeByName(refactoredAST, <<"c","a","l","c","u","l","a","t","e","T","o","t","a","l">>)
     IN  /\ l # NoNode
         /\ r # NoNode
         /\ mappings[l] = r
         /\ findBestMatch(legacyAST[l], collectNamedNodes(refactoredAST), refactoredAST).node # r

\* computeDiffs has returned in the analysis under way.
diffed == pc \in {"diffed", "classified", "scored", "scanned", "completed"}

\* Legacy node l and refactored node r have the same kind, the same text and
\* the same metadata.
sameNode(l, r) ==
  /\ legacyAST[l].type = refactoredAST[r].type
  /\ legacyAST[l].text = refactoredAST[r].text
  /\ legacyAST[l].metadata = refactoredAST[r].metadata

\* C19: the added nodes are exactly the refactored nodes that no legacy node
\* is mapped to and that no legacy node is the same as; the removed nodes are
\* exactly the legacy nodes that are not mapped and that no refactored node
\* is the same as.
C19_AddedAndRemoved ==
  diffed =>
    /\ Range(astChanges.added) =
         { r \in DOMAIN refactoredAST :
             /\ \A l \in DOMAIN mappings : mappings[l] # r
             /\ \A l \in DOMAIN legacyAST : ~sameNode(l, r) }
    /\ Range(astChanges.removed) =
         { l \in DOMAIN legacyAST :
             /\ l \notin DOMAIN mappings
             /\ \A r \in DOMAIN refactoredAST : ~sameNode(l, r) }

\* A node is added and a node is removed; a refactored node that no legacy
\* node is mapped to is the same as a legacy node, and is not added; a legacy
\* node is mapped to a node that differs from every legacy node.
C19_Witness ==
  /\ diffed
  /\ astChanges.removed # <<>>
  /\ astChanges.added # <<>>
  /\ \E r \in DOMAIN refactoredAST \ Range(astChanges.added) :
       /\ \A l \in DOMAIN mappings : mappings[l] # r
       /\ \E l \in DOMAIN legacyAST : sameNode(l, r)
  /\ \E l \in DOMAIN mappings : \A k \in DOMAIN legacyAST : ~sameNode(k, mappings[l])

\* The reasons of a pair that begin with text.
reasonsOf(pair, text) ==
  { k \in DOMAIN pair.changes :
      /\ Len(pair.changes[k]) >= Len(text)
      /\ SubSeq(pair.changes[k], 1, Len(text)) = text }

\* C20: the modified pairs are exactly the pairs of the mapping whose nodes
\* differ in kind, text or metadata, each once; the reasons of a pair are not
\* empty, and hold one reason for the kind exactly when the kinds differ, one
\* for the text exactly when the texts differ and one for the metadata exactly
\* when the metadata differ, and nothing else; the refactored node of a
\* modified pair is not added and its legacy node is not removed.
C20_ModifiedPairs ==
  pc = "computeASTChangesReturned" =>
    /\ { <<astChanges.modified[k].legacy, astChanges.modified[k].refactored>> :
           k \in DOMAIN astChanges.modified }
         = { <<l, mappings[l]>> : l \in {l \in DOMAIN mappings : ~sameNode(l, mappings[l])} }
    /\ \A j, k \in DOMAIN astChanges.modified :
         astChanges.modified[j].legacy = astChanges.modified[k].legacy => j = k
    /\ \A k \in DOMAIN astChanges.modified :
         LET pair == astChanges.modified[k]
             l == legacyAST[pair.legacy]
             r == refactoredAST[pair.refactored]
             kind == reasonsOf(pair, <<"T","y","p","e"," ","c","h","a","n","g","e","d",":"," ">>)
             text == reasonsOf(pair, <<"C","o","n","t","e","n","t"," ","m","o","d","i","f","i","e","d">>)
             metadata == reasonsOf(pair, <<"M","e","t","a","d","a","t","a"," ","c","h","a","n","g","e","d">>)
         IN  /\ pair.changes # <<>>
             /\ Cardinality(kind) = IF l.type # r.type THEN 1 ELSE 0
             /\ Cardinality(text) = IF l.text # r.text THEN 1 ELSE 0
             /\ Cardinality(metadata) = IF l.metadata # r.metadata THEN 1 ELSE 0
             /\ kind \cup text \cup metadata = DOMAIN pair.changes
             /\ pair.refactored \notin Range(astChanges.added)
             /\ pair.legacy \notin Range(astChanges.removed)

\* A pair modified in its kind alone, and a mapped pair that is not modified.
C20_Witness ==
  /\ pc = "computeASTChangesReturned"
  /\ \E k \in DOMAIN astChanges.modified :
       /\ Len(astChanges.modified[k].changes) = 1
       /\ reasonsOf(astChanges.modified[k], <<"T","y","p","e"," ","c","h","a","n","g","e","d",":"," ">>) # {}
  /\ \E l \in DOMAIN mappings : sameNode(l, mappings[l])

\* classify has returned in the analysis under way.
classified == pc \in {"classified", "scored", "scanned", "completed"}

\* The kinds of the extractMethod and inlineMethod rules.
methodKinds == {"function_declaration", "method_declaration", "function_definition"}

\* C21: when computeASTChanges found an added node of a method kind, the tags
\* of classify hold Extract Method; when it found a removed node of a method
\* kind, they hold Inline Method.
C21_KindRulesOverDiffNodes ==
  classified =>
    /\ (\E r \in Range(astChanges.added) : refactoredAST[r].type \in methodKinds) =>
         "Extract Method" \in tagSet(refactorTypes)
    /\ (\E l \in Range(astChanges.removed) : legacyAST[l].type \in methodKinds) =>
         "Inline Method" \in tagSet(refactorTypes)

\* The levels of the tags never rise along the list.
levelsFall(tags) ==
  \A i, j \in DOMAIN tags : i < j => tags[i].level >= tags[j].level

\* The summary of a list of tags, from its first three at most.
summaryOfFirstThree(tags) ==
  LET description == << <<"t","r","i","v","i","a","l">>, <<"m","i","n","o","r">>, <<"m","o","d","e","r","a","t","e">>, <<"s","i","g","n","i","f","i","c","a","n","t">>,
                        <<"a","r","c","h","i","t","e","c","t","u","r","a","l">> >>
  IN     <<"M","a","j","o","r"," ">> \o description[tags[1].level + 1] \o <<" ","c","h","a","n","g","e","s",":"," ">>
      \o join([k \in 1..Min({3, Len(tags)}) |-> toLowerCase(typeTexts[tags[k].type])],
              <<","," ">>)

\* C22: the levels of the list classify returns never rise along the list;
\* after generateSummary the list is the one classify returned, in the same
\* order, and the summary names its first three tags, the first of them with
\* its level.
C22_SortedByLevel ==
  /\ pc \in {"classifyReturned", "generateSummaryReturned"} => levelsFall(refactorTypes)
  /\ pc = "generateSummaryReturned" =>
       /\ refactorTypes = classify(astDiffs, "javascript")
       /\ refactorTypes # <<>> => analysis.summary = summaryOfFirstThree(refactorTypes)

\* More than three tags of two levels at least, detected in another order
\* than that of their levels, and summarized.
C22_Witness ==
  /\ pc = "generateSummaryReturned"
  /\ Len(refactorTypes) > 3
  /\ Cardinality({refactorTypes[k].level : k \in DOMAIN refactorTypes}) > 1
  /\ ~levelsFall(rawDetections(astDiffs))

\* C23: what calculate returns for a diff and a list of tags is what it
\* returns for them and any other language: the score, the level and the
\* detailed metrics.
C23_ScoreOfAnyLanguage ==
  pc = "calculated" =>
    \A language \in ScoreLanguages \ {request.language} :
      LET other == calculate(astDiffs, refactorTypes, language)
      IN  /\ impactMetrics.overallScore = other.overallScore
          /\ impactMetrics.level = other.level
          /\ impactMetrics.detailed = other.detailed

\* calculate has returned for java, whose factors adjustForLanguage has at
\* 1.1 and 1.2, on tags that count as infrastructure and change the
\* complexity.
C23_Witness ==
  /\ pc = "calculated"
  /\ request.language = "java"
  /\ impactMetrics.detailed.newInfrastructureComponents >= 1
  /\ impactMetrics.detailed.cyclomaticComplexityDelta # 0

\* calculate has returned in the analysis under way.
scored == pc \in {"scored", "scanned", "completed"}

\* C24: the totalLinesChanged of the metrics is the lines added, the lines
\* removed and the count of modified pairs of the diff, together.
C24_LinesChangedCountsModified ==
  scored =>
    impactMetrics.detailed.totalLinesChanged =
      astDiffs.overall.linesAdded + astDiffs.overall.linesRemoved
      + Len(astChanges.modified)

\* The texts of the isNew rules of Service Extraction.
serviceWords ==
  { <<"r","e","s","t","c","o","n","t","r","o","l","l","e","r">>, <<"c","o","n","t","r","o","l","l","e","r">>, <<"s","e","r","v","i","c","e">>, <<"@","r","e","s","t","c","o","n","t","r","o","l","l","e","r">>,
    <<"@","c","o","n","t","r","o","l","l","e","r">>, <<"@","s","e","r","v","i","c","e">>, <<"e","x","p","r","e","s","s">>, <<"f","a","s","t","i","f","y">>, <<"f","l","a","s","k">>,
    <<"d","j","a","n","g","o">> }

\* C25: the tags hold Service Extraction, whose rules are all isNew rules on
\* text, only when a line that the refactored source introduces holds one of
\* the words of these rules.
C25_IsNewRuleNeedsIntroducedText ==
  (classified /\ "Service Extraction" \in tagSet(refactorTypes)) =>
    \E s \in introduced(request) : holdsWord(Statements[s].text, serviceWords)

\* The changes of status of the lifecycle pending, processing, then completed
\* or failed.
lifecycle ==
  { <<"pending", "processing">>, <<"processing", "completed">>,
    <<"processing", "failed">> }

\* C26: every change of the status of a document is a step of the lifecycle:
\* pending to processing, processing to completed or to failed, and nothing
\* after completed or failed.
C26_StatusFollowsLifecycle ==
  [][\A i \in AnalysisIds :
       (/\ i \in DOMAIN analyses
        /\ i \in DOMAIN analyses'
        /\ analyses'[i].status # analyses[i].status)
         => <<analyses[i].status, analyses'[i].status>> \in lifecycle]_vars

\* POST /analyze has answered 202 for analysis i.
accepted(i) == handlers[i].res = 202

\* The document of analysis i has the status completed or failed.
settled(i) == i \in DOMAIN analyses /\ analyses[i].status \in {"completed", "failed"}

\* C27: an analysis that POST /analyze has accepted is, some time later,
\* completed or failed, or its document is deleted.
C27_AcceptedIsSettled ==
  \A i \in AnalysisIds : accepted(i) ~> (settled(i) \/ i \notin DOMAIN analyses)

\* An accepted analysis whose document is there has been completed by the
\* processor of the queue.
C27_Witness ==
  \E i \in AnalysisIds :
    /\ accepted(i)
    /\ settled(i)
    /\ analyses[i].status = "completed"
    /\ workers[<<i, "processor">>].at = "returned"

\* enqueueAnalysis has handed analysis i to setImmediate or to the queue, or
\* analyzeCodePair has been called for it.
enqueued(i) ==
  \/ i \in immediates \cup jobs
  \/ \E by \in Executors : workers[<<i, by>>].at # "none"

\* C28: an analysis is enqueued or run only after await analysis.save() has
\* returned, the save leaves the document with status pending, 202 is
\* answered only after enqueueAnalysis has returned, and the answer is 500
\* when save or enqueueAnalysis threw.
C28_SavedThenEnqueuedThenAnswered ==
  /\ [](\A i \in AnalysisIds :
          /\ enqueued(i) => handlers[i].at \in {"added", "accepted"}
          /\ handlers[i].at = "saveThrew" => i \notin DOMAIN analyses
          /\ handlers[i].res = 202 =>
               handlers[i].at = "accepted" /\ handlers[i].returned # Null
          /\ handlers[i].at \in {"saveThrew", "enqueueThrew"} => handlers[i].res = 500)
  /\ [][\A i \in AnalysisIds :
          /\ (handlers[i].at = "idle" /\ handlers'[i].at = "saved") =>
               i \in DOMAIN analyses' /\ analyses'[i].status = "pending"
          /\ (~enqueued(i) /\ enqueued(i)') => handlers[i].at = "saved"]_vars

\* An analysis has been answered 202 and analyzeCodePair runs for it, and
\* another has been answered 500 because analysisQueue.add threw.
C28_Witness ==
  \E i, j \in AnalysisIds :
    /\ handlers[i].res = 202
    /\ \E by \in Executors : workers[<<i, by>>].at = "compiled"
    /\ handlers[j].at = "enqueueThrew"
    /\ handlers[j].res = 500
    /\ j \in DOMAIN analyses

\* The places where there is a call of analyzeCodePair for analysis i, to come
\* or made: the callbacks of setImmediate, the jobs of the queue, and the
\* calls each executor has made.
executions(i) ==
    (IF i \in immediates THEN 1 ELSE 0)
  + (IF i \in jobs THEN 1 ELSE 0)
  + workers[<<i, "inProcess">>].runs
  + workers[<<i, "processor">>].runs

\* C29: an analysis that enqueueAnalysis has taken has one call of
\* analyzeCodePair, to come or made, and no other analysis has any; the call
\* is the callback of setImmediate when enqueueAnalysis returned queued:false
\* and the processor's when it returned queued:true; an analysis goes to
\* setImmediate only while analysisQueue is null and to the queue only while
\* it is not.
C29_ExecutedOnce ==
  /\ [](\A i \in AnalysisIds :
          /\ executions(i) = IF handlers[i].at \in {"added", "accepted"} THEN 1 ELSE 0
          /\ handlers[i].returned = [queued |-> FALSE] =>
               i \in immediates \/ workers[<<i, "inProcess">>].runs = 1
          /\ handlers[i].returned = [queued |-> TRUE] =>
               i \in jobs \/ workers[<<i, "processor">>].runs = 1)
  /\ [][\A i \in AnalysisIds :
          /\ (i \in immediates' /\ i \notin immediates) => analysisQueue = Null
          /\ (i \in jobs' /\ i \notin jobs) => analysisQueue # Null]_vars

\* One analysis has been run by the callback of setImmediate, queued:false,
\* and, initQueue having run in between, another by the processor of the
\* queue, queued:true, and its analyzeCodePair has rejected.
C29_Witness ==
  \E i, j \in AnalysisIds :
    /\ handlers[i].returned = [queued |-> FALSE]
    /\ workers[<<i, "inProcess">>] = [at |-> "returned", runs |-> 1]
    /\ handlers[j].returned = [queued |-> TRUE]
    /\ workers[<<j, "processor">>] = [at |-> "rejected", runs |-> 1]
    /\ j \notin jobs

=============================================================================
